---- MODULE Spec2Model ----
(***************************************************************************)
(* dockevOS: command registry, prefix resolution, plugin lifecycle and     *)
(* event bus.                                                              *)
(*                                                                         *)
(* Objects of the repository, each under its own specification:            *)
(*   Spec         ContainerOSMVP with its PluginManager, EventBus and      *)
(*                UsageTracker: plugin files, load, unload, reload and     *)
(*                dispatch                (src/dockevos/__main__.py)       *)
(*   SpecRegistry ContainerOSMVP.register_command / unregister_command     *)
(*                and dispatch                                             *)
(*   SpecPM       the PluginManager singleton with prefix resolution       *)
(*                (src/plugins/plugin_manager.py, plugin_manager_core.py)  *)
(*   SpecBus      EventBus.emit / subscribe, one step per subscriber call  *)
(*   SpecHistory  EventBus.emit driven past the capacity of its history    *)
(*   SpecObserved Spec with a subscriber of the plugin events looking on   *)
(*   SpecLoop     ContainerOSMVP._main_loop, one step per statement, with  *)
(*                the spell checker of plugins/error_handler;              *)
(*                SpecLoopFair adds that the loop keeps running            *)
(*   SpecTracker  the dispatch loop turn by turn, for the UsageTracker      *)
(*   SpecSubs     the shell with plugins that subscribe to the event bus   *)
(*                (the basic template of src/plugins/plugin_generator.py)  *)
(*   SpecMonitor  the monitoring plugin of the generator and its sampler   *)
(*                thread, with time in seconds                             *)
(*   SpecImport   the import of the modules of the package src/plugins     *)
(*   SpecCollector the ErrorHandler singleton: register_handler, log_error *)
(*                (src/plugins/error_handler/__init__.py)                  *)
(*   SpecFaults   Spec with plugin files whose register() or unregister()  *)
(*                raises                                                   *)
(*   SpecReload   the PluginManager with plugins that carry event handlers *)
(*                and its reload command                                   *)
(*                                                                         *)
(* Command names are sequences of one-character strings, so that           *)
(* str.lower() and str.startswith() are computed, not assumed.             *)
(***************************************************************************)
EXTENDS Integers, Sequences, FiniteSets, TLC

(***************************************************************************)
(* Bounds of the model                                                     *)
(***************************************************************************)
\* Spec: number of events emitted in one run
MaxEvents == 3
\* SpecBus: number of subscribe calls, number of emit calls
MaxSubs == 3
MaxEmits == 2
\* SpecHistory: number of emit calls, number of subscribe calls
MaxHistEmits == 150
MaxHistSubs == 1
\* SpecLoop: number of command lines dispatched in one run
MaxLines == 3
\* SpecTracker: number of command lines dispatched in one run
MaxTracked == 6
\* SpecSubs: number of events emitted before the last operation of a run
MaxSubsEvents == 4
\* SpecMonitor: number of events emitted before the last operation of a run,
\* number of sampler threads started
MaxMonitorEvents == 4
MaxThreads == 2
\* SpecCollector: number of register_handler calls, number of log_error calls
MaxErrHandlers == 3
MaxErrors == 2
\* SpecReload: the register_event_handler calls made from outside a plugin
MaxEventRegistrations == 2

(***************************************************************************)
(* Program constants                                                       *)
(***************************************************************************)
\* deque(maxlen=100)
HistoryMaxLen == 100
\* UsageTracker.track_command: the count at which an alias is suggested
AliasThreshold == 5
\* the monitoring plugin, in seconds: join(timeout=2), time.sleep(5) and
\* psutil.cpu_percent(interval=1)
JoinTimeout == 2
SleepSeconds == 5
SampleSeconds == 1
\* UsageTracker.get_stats: the length of most_used
MostUsedLen == 5

(***************************************************************************)
(* Command names                                                           *)
(***************************************************************************)
Name_help == <<"h","e","l","p">>
Name_exit == <<"e","x","i","t">>
Name_quit == <<"q","u","i","t">>
Name_ps == <<"p","s">>
Name_containers == <<"c","o","n","t","a","i","n","e","r","s">>
Name_start == <<"s","t","a","r","t">>
Name_stop == <<"s","t","o","p">>
Name_info == <<"i","n","f","o">>
Name_status == <<"s","t","a","t","u","s">>
Name_speak == <<"s","p","e","a","k">>
Name_listen == <<"l","i","s","t","e","n">>
Name_voice == <<"v","o","i","c","e">>
Name_plugins == <<"p","l","u","g","i","n","s">>
Name_stats == <<"s","t","a","t","s">>
Name_reload == <<"r","e","l","o","a","d">>
Name_hello == <<"h","e","l","l","o">>
Name_time == <<"t","i","m","e">>
Name_hel == <<"h","e","l">>
Name_logs == <<"l","o","g","s">>
Name_history == <<"h","i","s","t","o","r","y">>
Name_system_info == <<"s","y","s","t","e","m","_","i","n","f","o">>
Name_alternatives == <<"a","l","t","e","r","n","a","t","i","v","e","s">>
Name_use == <<"u","s","e">>
Name_g_example == <<"g","-","e","x","a","m","p","l","e">>
Name_g_status == <<"g","-","s","t","a","t","u","s">>
Name_g_config == <<"g","-","c","o","n","f","i","g">>
Name_monitor == <<"m","o","n","i","t","o","r">>
Name_monitor_start == <<"m","o","n","i","t","o","r","-","s","t","a","r","t">>
Name_monitor_stop == <<"m","o","n","i","t","o","r","-","s","t","o","p">>
Name_monitor_history == <<"m","o","n","i","t","o","r","-","h","i","s","t","o","r","y">>
Name_monitor_processes == <<"m","o","n","i","t","o","r","-","p","r","o","c","e","s","s","e","s">>
Name_monitor_alerts == <<"m","o","n","i","t","o","r","-","a","l","e","r","t","s">>
Name_voice_engines == <<"v","o","i","c","e","-","e","n","g","i","n","e","s">>
Name_voice_config == <<"v", "o", "i", "c", "e", "-", "c", "o", "n", "f", "i", "g">>
Name_voice_test == <<"v", "o", "i", "c", "e", "-", "t", "e", "s", "t">>
Name_voice_clear_cache == <<"v", "o", "i", "c", "e", "-", "c", "l", "e", "a", "r", "-", "c", "a", "c", "h", "e">>

\* str.startswith(prefix)
startswith(s, prefix) ==
    /\ Len(prefix) <= Len(s)
    /\ \A i \in 1..Len(prefix) : s[i] = prefix[i]

\* the lower-case form of one character
LowerChar(c) ==
    CASE c = "H" -> "h"
      [] c = "E" -> "e"
      [] c = "L" -> "l"
      [] c = "P" -> "p"
      [] c = "O" -> "o"
      [] OTHER -> c

\* str.lower()
lower(s) == [i \in 1..Len(s) |-> LowerChar(s[i])]

(***************************************************************************)
(* State                                                                   *)
(***************************************************************************)
VARIABLES
    commands,        \* ContainerOSMVP.commands: name -> handler
    plugins,         \* PluginManager.plugins: plugin name -> loaded module
    plugin_files,    \* plugins/*.py: plugin name -> content of the file
    subscribers,     \* EventBus.subscribers: event type -> list of handlers
    event_history,   \* EventBus.event_history
    clock,           \* number of Event objects created so far (Event.timestamp)
    command_count,   \* UsageTracker.command_count: the items of the dict, in
                     \* insertion order
    suggestions,     \* the commands UsageTracker suggested an alias for, in turn
    running,         \* ContainerOSMVP.running
    lastOp,          \* the last operation of the shell and what it returned
    observed,        \* what the subscriber `observer` saw during the last operation
    pc,              \* ContainerOSMVP._main_loop: where the loop is
    line,            \* the command line being dispatched (its tokens)
    stack,           \* the command handlers in execution, innermost last
    output,          \* what the last command line made the shell report
    known_commands,  \* ErrorHandler.known_commands
    command_handlers,\* plugin manager: command_handlers, name -> handler
    event_handlers,  \* plugin manager: event_handlers, event -> list of handlers
    pm_plugins,      \* plugin manager: plugins, module name -> plugin object
    pm_packages,     \* the plugin packages that exist under plugins/
    pm_last,         \* plugin manager: the last operation and its outcome
    sys_modules,     \* sys.modules: the modules imported so far
    objects,         \* the service objects the imported modules have created
    imp_last,        \* the last import, or call of an accessor, and its outcome
    monitor,         \* the SystemMonitor of the monitoring plugin and its threads
    error_handler,   \* the ErrorHandler singleton: plugin_handlers, and what
                     \* log_error logged and called
    delivery,        \* EventBus.emit in progress: its position in the loop
    emit_log,        \* the handler calls of the current (or last) emit
    script           \* SpecHistory: the event types the run emits, in turn

shellVars == <<commands, plugins, plugin_files, subscribers, event_history,
               clock, command_count, suggestions, running, lastOp, observed>>
loopVars == <<pc, line, stack, output, known_commands>>
importVars == <<sys_modules, objects, imp_last>>
pmVars == <<command_handlers, event_handlers, pm_plugins, pm_packages, pm_last, sys_modules, objects, imp_last,
            monitor, error_handler>>
busVars == <<delivery, emit_log, script>>
vars == <<commands, plugins, plugin_files, subscribers, event_history,
          clock, command_count, suggestions, running, lastOp, observed,
          pc, line, stack, output, known_commands,
          command_handlers, event_handlers, pm_plugins, pm_packages, pm_last,
          sys_modules, objects, imp_last, monitor, error_handler,
          delivery, emit_log, script>>

(***************************************************************************)
(* ContainerOSMVP: handlers, plugin files, the operations as functions of  *)
(* the shell's state                                                       *)
(***************************************************************************)
NoHandler == [owner |-> "", ver |-> "", fn |-> ""]
Builtin(fn) == [owner |-> "ContainerOSMVP", ver |-> "builtin", fn |-> fn]
PluginHandler(plugin_name, module, fn) == [owner |-> plugin_name, ver |-> module, fn |-> fn]

\* ContainerOSMVP._register_builtin_commands
BuiltinTable ==
    { <<Name_help, "_cmd_help">>, <<Name_exit, "_cmd_exit">>,
      <<Name_quit, "_cmd_exit">>, <<Name_ps, "_cmd_ps">>,
      <<Name_containers, "_cmd_ps">>, <<Name_start, "_cmd_start">>,
      <<Name_stop, "_cmd_stop">>, <<Name_info, "_cmd_info">>,
      <<Name_status, "_cmd_info">>, <<Name_speak, "_cmd_speak">>,
      <<Name_listen, "_cmd_listen">>, <<Name_voice, "_cmd_speak">>,
      <<Name_plugins, "_cmd_plugins">>, <<Name_stats, "_cmd_stats">>,
      <<Name_reload, "_cmd_reload_plugins">> }
BuiltinNames == { p[1] : p \in BuiltinTable }
_register_builtin_commands ==
    [n \in BuiltinNames |-> Builtin((CHOOSE p \in BuiltinTable : p[1] = n)[2])]

\* The plugin files the model loads: the name of a file and what it holds.
\*   sample   plugins/sample_plugin.py: hello, time; unregister removes both
\*   status   a plugin built like the sample one, whose one command is status
\*   voice    the voice_enhanced template: registers speak and voice-engines,
\*            its unregister removes voice-engines and leaves speak
\*   core     plugins/plugin_manager_core.py: register() adds no command, and
\*            the file has no unregister()
\*   noentry  a file without register() (plugins/setup.py)
\*   system_log  a unit of the setup() protocol (plugins/system_log): no
\*            register(), setup() returns an instance with `commands`
\*   broken   a file whose execution raises
\*   generated  the basic template of plugins/plugin_generator.py, generated
\*            for the name g: three commands, and register() subscribes a
\*            lambda to system.startup; unregister() removes the commands
\*   monitor  the system monitor template of plugins/plugin_generator.py: six
\*            commands; monitor-start starts the sampler thread, and
\*            unregister() stops the monitoring before it removes the commands
\*   partial  a plugin whose register() registers hello and then raises
\*   stuck    a plugin whose register() registers time and whose
\*            unregister() raises before it removes anything
\*   listener a plugin whose register() subscribes its handler to
\*            command.executed the way the template does to system.startup;
\*            it has no command, and its unregister() does nothing
PluginNames == {"plugin_a", "plugin_b"}
Modules == {"sample", "status", "voice", "core", "noentry", "broken", "system_log",
            "generated", "listener", "monitor", "partial", "stuck"}
NoFile == "absent"

\* the shell.register_command calls of the file's register(), in order
RegisterCalls(module) ==
    CASE module = "sample" -> << <<Name_hello, "handle_hello_command">>,
                                 <<Name_time, "handle_time_command">> >>
      [] module = "status" -> << <<Name_status, "handle_status_command">> >>
      [] module = "voice"  -> << <<Name_speak, "handle_speak_command">>,
                                 <<Name_voice_engines, "handle_voice_engines_command">>,
                                 <<Name_voice_config, "handle_voice_config_command">>,
                                 <<Name_voice_test, "handle_voice_test_command">>,
                                 <<Name_voice_clear_cache, "handle_voice_clear_cache_command">> >>
      [] module = "monitor" -> << <<Name_monitor, "handle_monitor_status_command">>,
                                  <<Name_monitor_start, "handle_monitor_start_command">>,
                                  <<Name_monitor_stop, "handle_monitor_stop_command">>,
                                  <<Name_monitor_history, "handle_monitor_history_command">>,
                                  <<Name_monitor_processes, "handle_monitor_processes_command">>,
                                  <<Name_monitor_alerts, "handle_monitor_alerts_command">> >>
      [] module = "partial" -> << <<Name_hello, "handle_hello_command">> >>
      [] module = "stuck" -> << <<Name_time, "handle_time_command">> >>
      [] module = "generated" -> << <<Name_g_example, "handle_example_command">>,
                                    <<Name_g_status, "handle_status_command">>,
                                    <<Name_g_config, "handle_config_command">> >>
      [] OTHER -> << >>
\* the event_bus.subscribe calls of the file's register(), in order
SubscribeCalls(module) ==
    CASE module = "generated" -> << <<"system.startup", "lambda">> >>
      [] module = "listener" -> << <<"command.executed", "on_command">> >>
      [] OTHER -> << >>
\* a handler a plugin subscribed, as the event bus holds it
PluginSubscriber(plugin_name, fn) == plugin_name \o "." \o fn
PluginSubscribers ==
    UNION { { PluginSubscriber(p, SubscribeCalls(m)[i][2]) : i \in 1..Len(SubscribeCalls(m)) } :
            p \in PluginNames, m \in Modules }
\* the shell.unregister_command calls of the file's unregister(), in order
UnregisterCalls(module) ==
    CASE module = "sample" -> <<Name_hello, Name_time>>
      [] module = "status" -> <<Name_status>>
      [] module = "voice"  -> <<Name_voice_engines, Name_voice_config, Name_voice_test,
                                Name_voice_clear_cache>>
      [] module = "monitor" -> <<Name_monitor, Name_monitor_start, Name_monitor_stop,
                                 Name_monitor_history, Name_monitor_processes,
                                 Name_monitor_alerts>>
      [] module = "generated" -> <<Name_g_example, Name_g_status, Name_g_config>>
      [] OTHER -> << >>
\* spec.loader.exec_module(module) raises
ExecRaises(module) == module \in {"broken", NoFile}
\* hasattr(module, 'register'), hasattr(module, 'unregister')
HasRegister(module) ==
    module \in {"sample", "status", "voice", "core", "generated", "listener", "monitor",
                "partial", "stuck"}
HasUnregister(module) ==
    module \in {"sample", "status", "voice", "generated", "listener", "monitor",
                "partial", "stuck"}
\* module.register(event_bus, shell) raises after its register_command calls;
\* module.unregister(event_bus, shell) raises after its unregister_command calls
RegisterRaises(module) == module = "partial"
UnregisterRaises(module) == module = "stuck"
\* hasattr(module, 'setup')
HasSetup(module) == module = "system_log"
RegisteredNames(module) == { RegisterCalls(module)[i][1] : i \in 1..Len(RegisterCalls(module)) }

\* dict: del d[key] raises KeyError when key is missing
DictDel(d, key) == [n \in DOMAIN d \ {key} |-> d[n]]

register_command_overwrite_lost(cmds, name, handler) ==
    IF name \in DOMAIN cmds THEN cmds
    ELSE [n \in DOMAIN cmds \cup {name} |-> IF n = name THEN handler ELSE cmds[n]]
\* ContainerOSMVP.register_command
register_command(cmds, name, handler) ==
    [n \in DOMAIN cmds \cup {name} |-> IF n = name THEN handler ELSE cmds[n]]

unregister_command_unguarded(cmds, name) ==
    [commands |-> DictDel(cmds, name), raised |-> name \notin DOMAIN cmds]
\* ContainerOSMVP.unregister_command: the new mapping, and whether it raised
unregister_command(cmds, name) ==
    IF name \in DOMAIN cmds
    THEN [commands |-> DictDel(cmds, name), raised |-> FALSE]
    ELSE [commands |-> cmds, raised |-> FALSE]

\* the outcome of looking a typed name up
Found(name, handler) == [kind |-> "Found", name |-> name, handler |-> handler, candidates |-> << >>]
NotFound == [kind |-> "NotFound", name |-> << >>, handler |-> NoHandler, candidates |-> << >>]
AmbiguousMatch(names) == [kind |-> "AmbiguousMatch", name |-> << >>, handler |-> NoHandler, candidates |-> names]

\* ContainerOSMVP._execute_command, the lookup: `if cmd_name in self.commands`
lookup(cmds, cmd_name) ==
    IF cmd_name \in DOMAIN cmds THEN Found(cmd_name, cmds[cmd_name]) ELSE NotFound

\* module.register(event_bus, shell): its register_command calls from the i-th on
RECURSIVE module_register(_, _, _, _)
RECURSIVE module_register_keep_existing(_, _, _, _)
module_register_keep_existing(cmds, plugin_name, module, i) ==
    IF i > Len(RegisterCalls(module)) THEN cmds
    ELSE module_register_keep_existing(
            IF RegisterCalls(module)[i][1] \in DOMAIN cmds THEN cmds
            ELSE register_command(cmds, RegisterCalls(module)[i][1],
                                  PluginHandler(plugin_name, module, RegisterCalls(module)[i][2])),
            plugin_name, module, i + 1)
module_register(cmds, plugin_name, module, i) ==
    IF i > Len(RegisterCalls(module)) THEN cmds
    ELSE module_register(
            register_command(cmds, RegisterCalls(module)[i][1],
                             PluginHandler(plugin_name, module, RegisterCalls(module)[i][2])),
            plugin_name, module, i + 1)

\* module.unregister(event_bus, shell): its unregister_command calls from the i-th on
RECURSIVE module_unregister(_, _, _)
module_unregister(cmds, module, i) ==
    IF i > Len(UnregisterCalls(module)) THEN cmds
    ELSE module_unregister(unregister_command(cmds, UnregisterCalls(module)[i]).commands,
                           module, i + 1)

(***************************************************************************)
(* EventBus and UsageTracker, as functions of the shell's state            *)
(***************************************************************************)
Event(type, data, timestamp) == [type |-> type, data |-> data, timestamp |-> timestamp]
PluginData(plugin_name) == [name |-> plugin_name, command |-> << >>]
CommandData(command_line) == [name |-> "", command |-> command_line]

subscribe_at_front(subs, event_type, handler) ==
    [t \in DOMAIN subs \cup {event_type} |->
        IF t = event_type
        THEN <<handler>> \o (IF t \in DOMAIN subs THEN subs[t] ELSE << >>)
        ELSE subs[t]]
\* EventBus.subscribe, on the subscribers (a defaultdict(list))
subscribe(subs, event_type, handler) ==
    [t \in DOMAIN subs \cup {event_type} |->
        IF t = event_type
        THEN Append(IF t \in DOMAIN subs THEN subs[t] ELSE << >>, handler)
        ELSE subs[t]]

\* module.register(event_bus, shell): its event_bus.subscribe calls from the i-th on
RECURSIVE module_subscribe(_, _, _, _)
module_subscribe(subs, plugin_name, module, i) ==
    IF i > Len(SubscribeCalls(module)) THEN subs
    ELSE module_subscribe(
            subscribe(subs, SubscribeCalls(module)[i][1],
                      PluginSubscriber(plugin_name, SubscribeCalls(module)[i][2])),
            plugin_name, module, i + 1)

history_append_unbounded(history, event) == Append(history, event)
\* deque(maxlen=100).append
history_append(history, event) ==
    IF Len(history) < HistoryMaxLen THEN Append(history, event)
    ELSE Append(Tail(history), event)

\* a dict kept as the sequence of its items, in insertion order
Keys(items) == { items[i].name : i \in 1..Len(items) }
Get(items, name) == (CHOOSE i \in 1..Len(items) : items[i].name = name)
ModuleOf(items, name) == items[Get(items, name)].module
ItemsDel(items, name) == SelectSeq(items, LAMBDA it : it.name # name)
\* d[name] = module: a present key keeps its place, a new one goes last
ItemsSet(items, name, module) ==
    IF name \in Keys(items)
    THEN [i \in 1..Len(items) |-> IF items[i].name = name
                                  THEN [name |-> name, module |-> module] ELSE items[i]]
    ELSE Append(items, [name |-> name, module |-> module])

\* command_count[command], of a defaultdict(int) that is only read
CountOf(counts, command) ==
    IF \E i \in 1..Len(counts) : counts[i].name = command
    THEN counts[CHOOSE i \in 1..Len(counts) : counts[i].name = command].count
    ELSE 0
\* command_count[command] += 1: a new key goes to the end of the dict
Increment(counts, command) ==
    IF \E i \in 1..Len(counts) : counts[i].name = command
    THEN [i \in 1..Len(counts) |-> IF counts[i].name = command
                                   THEN [name |-> command, count |-> counts[i].count + 1]
                                   ELSE counts[i]]
    ELSE Append(counts, [name |-> command, count |-> 1])

track_command_from_5_on(tracker, command) ==
    LET counts == Increment(tracker.command_count, command)
    IN [command_count |-> counts,
        suggestions |-> IF CountOf(counts, command) >= AliasThreshold
                        THEN Append(tracker.suggestions, command)
                        ELSE tracker.suggestions]
\* UsageTracker.track_command, on the tracker's counters and what it has printed
track_command(tracker, command) ==
    LET counts == Increment(tracker.command_count, command)
    IN [command_count |-> counts,
        suggestions |-> IF CountOf(counts, command) = AliasThreshold
                        THEN Append(tracker.suggestions, command)
                        ELSE tracker.suggestions]

\* sorted(items, key=lambda x: x[1], reverse=True), from the i-th item on into
\* `done`: a stable sort, so items of equal count keep their order
RECURSIVE sorted_by_count(_, _, _)
sorted_by_count(items, i, done) ==
    IF i > Len(items) THEN done
    ELSE LET before == SelectSeq(done, LAMBDA x : x.count >= items[i].count)
             after == SelectSeq(done, LAMBDA x : x.count < items[i].count)
         IN sorted_by_count(items, i + 1, before \o <<items[i]>> \o after)

RECURSIVE SumCounts(_, _)
SumCounts(counts, i) ==
    IF i > Len(counts) THEN 0 ELSE counts[i].count + SumCounts(counts, i + 1)

get_stats_top_by_name(counts) ==
    [commands_used |-> Len(counts),
     total_commands |-> SumCounts(counts, 1),
     most_used |-> SubSeq(counts, 1, IF Len(counts) < MostUsedLen THEN Len(counts)
                                     ELSE MostUsedLen)]
\* UsageTracker.get_stats, without the session time; most_used is a dict, kept
\* as the sequence of its items
get_stats(counts) ==
    [commands_used |-> Len(counts),
     total_commands |-> SumCounts(counts, 1),
     most_used |-> SubSeq(sorted_by_count(counts, 1, << >>), 1,
                          IF Len(counts) < MostUsedLen THEN Len(counts) ELSE MostUsedLen)]

\* one subscriber called with the event: the state it leaves; an exception it
\* raises is caught by emit
\* `observer` is a subscriber that looks at the shell when it is called, and
\* so do the handlers the plugins subscribe
call_subscriber(s, handler, event) ==
    IF handler = "_handle_command_executed" /\ Len(event.data.command) > 0
    THEN LET tracker == track_command([command_count |-> s.command_count,
                                       suggestions |-> s.suggestions],
                                      event.data.command[1])
         IN [s EXCEPT !.command_count = tracker.command_count,
                      !.suggestions = tracker.suggestions]
    ELSE IF handler = "observer" \/ handler \in PluginSubscribers
    THEN [s EXCEPT !.observed = Append(@, [type |-> event.type, name |-> event.data.name,
                                           commands |-> s.commands,
                                           plugins |-> Keys(s.plugins),
                                           by |-> handler,
                                           command |-> event.data.command,
                                           counts |-> s.command_count])]
    ELSE s

RECURSIVE run_subscribers(_, _, _, _)
run_subscribers(s, handlers, i, event) ==
    IF i > Len(handlers) THEN s
    ELSE run_subscribers(call_subscriber(s, handlers[i], event), handlers, i + 1, event)

\* EventBus.emit, run to completion
emit(s, event_type, data) ==
    LET event == Event(event_type, data, s.clock + 1)
        s1 == [s EXCEPT !.event_history = history_append(@, event),
                        !.clock = @ + 1]
        handlers == IF event_type \in DOMAIN s.subscribers
                    THEN s.subscribers[event_type] ELSE << >>
    IN run_subscribers(s1, handlers, 1, event)

(***************************************************************************)
(* PluginManager of the shell: plugins is a dict, kept as the sequence of  *)
(* its items in insertion order                                            *)
(***************************************************************************)
unload_plugin_keeps_commands(s, plugin_name) ==
    IF plugin_name \in Keys(s.plugins)
    THEN emit([s EXCEPT !.plugins = ItemsDel(@, plugin_name)],
              "plugin.unloaded", PluginData(plugin_name))
    ELSE s
unload_plugin_emits_unknown(s, plugin_name) ==
    LET module == IF plugin_name \in Keys(s.plugins)
                  THEN ModuleOf(s.plugins, plugin_name) ELSE ""
        s1 == IF HasUnregister(module)
              THEN [s EXCEPT !.commands = module_unregister(@, module, 1)]
              ELSE s
        s2 == [s1 EXCEPT !.plugins = ItemsDel(@, plugin_name)]
    IN emit(s2, "plugin.unloaded", PluginData(plugin_name))
unload_plugin_unsubscribes(s, plugin_name) ==
    IF plugin_name \in Keys(s.plugins)
    THEN LET module == ModuleOf(s.plugins, plugin_name)
             s1 == IF HasUnregister(module)
                   THEN [s EXCEPT !.commands = module_unregister(@, module, 1),
                                  !.subscribers =
                                      [t \in DOMAIN @ |->
                                          SelectSeq(@[t], LAMBDA h :
                                              \A i \in 1..Len(SubscribeCalls(module)) :
                                                  h # PluginSubscriber(plugin_name,
                                                          SubscribeCalls(module)[i][2]))]]
                   ELSE s
             s2 == [s1 EXCEPT !.plugins = ItemsDel(@, plugin_name)]
         IN emit(s2, "plugin.unloaded", PluginData(plugin_name))
    ELSE s
\* PluginManager.unload_plugin; what unregister() raises is not caught here:
\* the state is returned with `raised` set
unload_plugin(s, plugin_name) ==
    IF plugin_name \in Keys(s.plugins)
    THEN LET module == ModuleOf(s.plugins, plugin_name)
             s1 == IF HasUnregister(module)
                   THEN [s EXCEPT !.commands = module_unregister(@, module, 1),
                                  !.raised = UnregisterRaises(module)]
                   ELSE s
             s2 == [s1 EXCEPT !.plugins = ItemsDel(@, plugin_name)]
         IN IF s1.raised THEN s1
            ELSE emit(s2, "plugin.unloaded", PluginData(plugin_name))
    ELSE s

\* PluginManager.load_plugin: the state it leaves and the value it returns;
\* `module` is what the file holds when it is loaded
load_plugin_no_unload(s, plugin_name, module) ==
    IF ExecRaises(module) \/ ~HasRegister(module) THEN [state |-> s, ret |-> FALSE]
    ELSE [state |-> emit([s EXCEPT !.commands = module_register(@, plugin_name, module, 1),
                                   !.subscribers = module_subscribe(@, plugin_name, module, 1),
                                   !.plugins = ItemsSet(@, plugin_name, module)],
                         "plugin.loaded", PluginData(plugin_name)),
          ret |-> TRUE]
load_plugin_emits_first(s, plugin_name, module) ==
    LET s1 == IF plugin_name \in Keys(s.plugins) THEN unload_plugin(s, plugin_name) ELSE s
    IN IF ExecRaises(module) THEN [state |-> s1, ret |-> FALSE]
       ELSE IF HasRegister(module)
       THEN LET s2 == emit(s1, "plugin.loaded", PluginData(plugin_name))
            IN [state |-> [s2 EXCEPT !.commands = module_register(@, plugin_name, module, 1),
                                     !.subscribers = module_subscribe(@, plugin_name, module, 1),
                                     !.plugins = ItemsSet(@, plugin_name, module)],
                ret |-> TRUE]
       ELSE [state |-> s1, ret |-> FALSE]
load_plugin(s, plugin_name, module) ==
    LET s1 == IF plugin_name \in Keys(s.plugins) THEN unload_plugin(s, plugin_name) ELSE s
    IN IF s1.raised THEN [state |-> [s1 EXCEPT !.raised = FALSE], ret |-> FALSE]
       ELSE IF ExecRaises(module) THEN [state |-> s1, ret |-> FALSE]
       ELSE IF HasRegister(module)
       THEN LET registered == [s1 EXCEPT
                                 !.commands = module_register(@, plugin_name, module, 1),
                                 !.subscribers = module_subscribe(@, plugin_name, module, 1)]
                s2 == [registered EXCEPT !.plugins = ItemsSet(@, plugin_name, module)]
            IN IF RegisterRaises(module) THEN [state |-> registered, ret |-> FALSE]
               ELSE [state |-> emit(s2, "plugin.loaded", PluginData(plugin_name)),
                     ret |-> TRUE]
       ELSE [state |-> s1, ret |-> FALSE]

\* PluginManager.load_all_plugins: `files` is list(plugins_dir.glob("*.py")),
\* in the order the file system gives, with what each file holds
RECURSIVE load_all_plugins(_, _, _)
RECURSIVE load_all_plugins_stops_at_failure(_, _, _)
load_all_plugins_stops_at_failure(s, files, i) ==
    IF i > Len(files) THEN s
    ELSE IF ~load_plugin(s, files[i].name, files[i].module).ret
    THEN load_plugin(s, files[i].name, files[i].module).state
    ELSE load_all_plugins_stops_at_failure(
            load_plugin(s, files[i].name, files[i].module).state, files, i + 1)
load_all_plugins(s, files, i) ==
    IF i > Len(files) THEN s
    ELSE load_all_plugins(load_plugin(s, files[i].name, files[i].module).state, files, i + 1)

RECURSIVE unload_each(_, _, _)
unload_each(s, plugin_names, i) ==
    IF i > Len(plugin_names) \/ s.raised THEN s
    ELSE unload_each(unload_plugin(s, plugin_names[i]), plugin_names, i + 1)

reload_plugins_drops_registry(s, files) ==
    [load_all_plugins(unload_each(s, [i \in 1..Len(s.plugins) |-> s.plugins[i].name], 1),
                      files, 1)
        EXCEPT !.commands = [n \in {} |-> NoHandler]]
\* ContainerOSMVP._cmd_reload_plugins
_cmd_reload_plugins(s, files) ==
    LET plugin_names == [i \in 1..Len(s.plugins) |-> s.plugins[i].name]
        unloaded == unload_each(s, plugin_names, 1)
    IN IF unloaded.raised THEN unloaded
       ELSE load_all_plugins(unloaded, files, 1)

\* a command handler called with the arguments: the state it leaves
call_handler(s, handler, files) ==
    IF handler.fn = "_cmd_reload_plugins" THEN _cmd_reload_plugins(s, files)
    ELSE IF handler.fn = "_cmd_exit" THEN [s EXCEPT !.running = FALSE]
    ELSE s

_execute_command_emits_when_found(s, command_line, files) ==
    IF Len(command_line) = 0 THEN [state |-> s, result |-> NotFound]
    ELSE LET cmd_name == command_line[1]
             found == lookup(s.commands, cmd_name)
         IN IF found.kind = "Found"
            THEN [state |-> call_handler(emit(s, "command.executed",
                                              CommandData(command_line)),
                                         found.handler, files),
                  result |-> found]
            ELSE [state |-> s, result |-> found]
\* ContainerOSMVP._execute_command: the state it leaves and what the lookup gave;
\* command_line is the list of the line's tokens (command_line.split())
_execute_command(s, command_line, files) ==
    IF Len(command_line) = 0 THEN [state |-> s, result |-> NotFound]
    ELSE LET cmd_name == command_line[1]
             s1 == emit(s, "command.executed", CommandData(command_line))
             found == lookup(s1.commands, cmd_name)
         IN IF found.kind = "Found"
            THEN [state |-> [call_handler(s1, found.handler, files) EXCEPT !.raised = FALSE],
                  result |-> found]
            ELSE [state |-> s1, result |-> found]

(***************************************************************************)
(* Spec: the shell. One action per operation, each run to completion       *)
(* (single-threaded: nothing else runs while an operation does).           *)
(***************************************************************************)
\* the state an operation starts from; `observed` covers one operation
St == [commands |-> commands, plugins |-> plugins, subscribers |-> subscribers,
       event_history |-> event_history, clock |-> clock,
       command_count |-> command_count, suggestions |-> suggestions,
       running |-> running, observed |-> << >>, raised |-> FALSE]

Becomes(s) ==
    /\ commands' = s.commands
    /\ plugins' = s.plugins
    /\ subscribers' = s.subscribers
    /\ event_history' = s.event_history
    /\ clock' = s.clock
    /\ command_count' = s.command_count
    /\ suggestions' = s.suggestions
    /\ running' = s.running
    /\ observed' = s.observed

Op(op) == [op |-> op, name |-> << >>, plugin |-> "", module |-> "", handler |-> NoHandler,
           ret |-> TRUE, raised |-> FALSE, was_loaded |-> FALSE, existed |-> FALSE,
           result |-> NotFound, files |-> << >>, at |-> 0,
           before |-> [n \in {} |-> NoHandler]]

\* the names, handlers and lines the operations are called with
ApiNames == {Name_hello, Name_status}
ApiHandlers == {[owner |-> "api", ver |-> "", fn |-> "h1"], [owner |-> "api", ver |-> "", fn |-> "h2"]}
RegistryLines == { <<Name_hello>>, <<Name_hel>>, <<Name_status>>, <<Name_reload>> }
LoaderLines == { <<Name_hello>>, <<Name_hel>> }
\* what a plugin file of the model may hold
FileModules(p) == IF p = "plugin_a" THEN {"sample", "voice", "status", "broken"}
                  ELSE {"status", "core", "noentry", "system_log"}

\* list(plugins_dir.glob("*.py")): the files that exist, in any order
ExistingFiles == { p \in PluginNames : plugin_files[p] # NoFile }
FileLists ==
    { files \in UNION { [1..n -> PluginNames] : n \in 0..Cardinality(PluginNames) } :
        /\ { files[i] : i \in 1..Len(files) } = ExistingFiles
        /\ Len(files) = Cardinality(ExistingFiles) }
WithContent(files) == [i \in 1..Len(files) |-> [name |-> files[i], module |-> plugin_files[files[i]]]]

ShellInit ==
    /\ commands = _register_builtin_commands
    /\ plugins = << >>
    /\ plugin_files = [p \in PluginNames |-> NoFile]
    /\ subscribers = [t \in {"command.executed"} |-> <<"_handle_command_executed">>]
    /\ event_history = << >>
    /\ clock = 0
    /\ command_count = << >>
    /\ suggestions = << >>
    /\ running = TRUE
    /\ lastOp = Op("init")
    /\ observed = << >>

\* a plugin file is written, edited or replaced
WriteFile(p, module) ==
    /\ plugin_files[p] # module
    /\ plugin_files' = [plugin_files EXCEPT ![p] = module]
    /\ lastOp' = [Op("write_file") EXCEPT !.plugin = p, !.module = module]
    /\ UNCHANGED <<commands, plugins, subscribers, event_history, clock, command_count, suggestions, running, observed>>
    /\ UNCHANGED <<pmVars, busVars, loopVars>>

\* a plugin file is deleted
RemoveFile(p) ==
    /\ plugin_files[p] # NoFile
    /\ plugin_files' = [plugin_files EXCEPT ![p] = NoFile]
    /\ lastOp' = [Op("remove_file") EXCEPT !.plugin = p]
    /\ UNCHANGED <<commands, plugins, subscribers, event_history, clock, command_count, suggestions, running, observed>>
    /\ UNCHANGED <<pmVars, busVars, loopVars>>

RegisterCommand(name, handler) ==
    /\ commands' = register_command(commands, name, handler)
    /\ lastOp' = [Op("register_command") EXCEPT !.name = name, !.handler = handler,
                     !.existed = name \in DOMAIN commands]
    /\ UNCHANGED <<plugins, plugin_files, subscribers, event_history, clock, command_count, suggestions, running, observed>>
    /\ UNCHANGED <<pmVars, busVars, loopVars>>

UnregisterCommand(name) ==
    /\ commands' = unregister_command(commands, name).commands
    /\ lastOp' = [Op("unregister_command") EXCEPT !.name = name,
                     !.existed = name \in DOMAIN commands,
                     !.raised = unregister_command(commands, name).raised]
    /\ UNCHANGED <<plugins, plugin_files, subscribers, event_history, clock, command_count, suggestions, running, observed>>
    /\ UNCHANGED <<pmVars, busVars, loopVars>>

LoadPlugin(p) ==
    /\ clock < MaxEvents
    /\ Becomes(load_plugin(St, p, plugin_files[p]).state)
    /\ lastOp' = [Op("load_plugin") EXCEPT !.plugin = p, !.module = plugin_files[p],
                     !.ret = load_plugin(St, p, plugin_files[p]).ret,
                     !.was_loaded = p \in Keys(plugins), !.at = clock,
                     !.before = commands]
    /\ UNCHANGED plugin_files
    /\ UNCHANGED <<pmVars, busVars, loopVars>>

UnloadPlugin(p) ==
    /\ clock < MaxEvents
    /\ Becomes(unload_plugin(St, p))
    /\ lastOp' = [Op("unload_plugin") EXCEPT !.plugin = p,
                     !.module = IF p \in Keys(plugins) THEN ModuleOf(plugins, p) ELSE "",
                     !.was_loaded = p \in Keys(plugins), !.at = clock,
                     !.before = commands]
    /\ UNCHANGED plugin_files
    /\ UNCHANGED <<pmVars, busVars, loopVars>>

LoadAllPlugins(files) ==
    /\ clock < MaxEvents
    /\ Becomes(load_all_plugins(St, WithContent(files), 1))
    /\ lastOp' = [Op("load_all_plugins") EXCEPT !.files = WithContent(files), !.at = clock,
                     !.before = commands]
    /\ UNCHANGED plugin_files
    /\ UNCHANGED <<pmVars, busVars, loopVars>>

ReloadPlugins(files) ==
    /\ clock < MaxEvents
    /\ Becomes(_cmd_reload_plugins(St, WithContent(files)))
    /\ lastOp' = [Op("reload") EXCEPT !.was_loaded = plugins # << >>,
                     !.files = WithContent(files), !.at = clock, !.before = commands]
    /\ UNCHANGED plugin_files
    /\ UNCHANGED <<pmVars, busVars, loopVars>>

\* one turn of ContainerOSMVP._main_loop on a non-empty line
ExecuteCommand(command_line, files) ==
    /\ running
    /\ clock < MaxEvents
    /\ Becomes(_execute_command(St, command_line, WithContent(files)).state)
    /\ lastOp' = [Op("execute") EXCEPT !.name = command_line[1],
                     !.result = _execute_command(St, command_line, WithContent(files)).result,
                     !.handler = _execute_command(St, command_line, WithContent(files)).result.handler]
    /\ UNCHANGED plugin_files
    /\ UNCHANGED <<pmVars, busVars, loopVars>>

\* a client of the event bus subscribes `observer` to the plugin events
SubscribeObserver ==
    /\ \A ty \in DOMAIN subscribers : \A i \in 1..Len(subscribers[ty]) :
          subscribers[ty][i] # "observer"
    /\ subscribers' = [ty \in DOMAIN subscribers \cup {"plugin.loaded", "plugin.unloaded"} |->
                          IF ty \in {"plugin.loaded", "plugin.unloaded"}
                          THEN Append(IF ty \in DOMAIN subscribers THEN subscribers[ty]
                                      ELSE << >>, "observer")
                          ELSE subscribers[ty]]
    /\ lastOp' = Op("subscribe")
    /\ observed' = << >>
    /\ UNCHANGED <<commands, plugins, plugin_files, event_history, clock, command_count, suggestions, running>>
    /\ UNCHANGED <<pmVars, busVars, loopVars>>

\* Spec: plugin files, the plugin loader and the dispatch of plugin commands
LoaderNext ==
    \/ \E p \in PluginNames : \E module \in FileModules(p) : WriteFile(p, module)
    \/ \E p \in PluginNames : RemoveFile(p)
    \/ \E p \in PluginNames : LoadPlugin(p)
    \/ \E p \in PluginNames : UnloadPlugin(p)
    \/ \E files \in FileLists : LoadAllPlugins(files)
    \/ \E files \in FileLists : ReloadPlugins(files)
    \/ \E command_line \in LoaderLines, files \in FileLists : ExecuteCommand(command_line, files)

\* SpecRegistry: register_command, unregister_command and the dispatch loop
RegistryNext ==
    \/ \E name \in ApiNames, handler \in ApiHandlers : RegisterCommand(name, handler)
    \/ \E name \in ApiNames : UnregisterCommand(name)
    \/ \E command_line \in RegistryLines, files \in FileLists : ExecuteCommand(command_line, files)

PMIdle ==
    /\ command_handlers = << >>
    /\ event_handlers = << >>
    /\ pm_plugins = << >>
    /\ pm_packages = {}
    /\ pm_last = << >>
    /\ sys_modules = {}
    /\ objects = << >>
    /\ imp_last = << >>
    /\ monitor = << >>
    /\ error_handler = << >>
BusIdle ==
    /\ delivery = << >>
    /\ emit_log = << >>
    /\ script = << >>
\* the dispatch loop has not been started
LoopIdle ==
    /\ pc = "off"
    /\ line = << >>
    /\ stack = << >>
    /\ output = << >>
    /\ known_commands = {}

Init == ShellInit /\ PMIdle /\ BusIdle /\ LoopIdle
Next == LoaderNext
Spec == Init /\ [][Next]_vars

\* SpecObserved: Spec with a subscriber of the plugin events looking on
ObservedNext ==
    \/ SubscribeObserver
    \/ \E p \in PluginNames : \E module \in FileModules(p) : WriteFile(p, module)
    \/ \E p \in PluginNames : RemoveFile(p)
    \/ \E p \in PluginNames : LoadPlugin(p)
    \/ \E p \in PluginNames : UnloadPlugin(p)
    \/ \E files \in FileLists : LoadAllPlugins(files)
    \/ \E files \in FileLists : ReloadPlugins(files)
NextObserved == ObservedNext
SpecObserved == Init /\ [][NextObserved]_vars

NextRegistry == RegistryNext
SpecRegistry == Init /\ [][NextRegistry]_vars

(***************************************************************************)
(* Claims on the command registry of the shell (SpecRegistry)              *)
(***************************************************************************)
\* C1: right after register_command(name, h), looking the exact name up, as
\* the dispatch loop does, gives h: whatever was registered, unregistered or
\* dispatched before, and whether or not the name was already taken.
C1_RegistrationVisible ==
    lastOp.op = "register_command" =>
        lookup(commands, lastOp.name) = Found(lastOp.name, lastOp.handler)
\* a registration that replaced the handler of a name already registered,
\* after the loop had dispatched commands
C1_Witness ==
    /\ lastOp.op = "register_command"
    /\ lastOp.existed
    /\ clock > 0
    /\ commands[lastOp.name] = lastOp.handler

\* C2: unregister_command(name) raises nothing, for a registered name and for
\* one that is not, and looking the name up right after it gives NotFound.
C2_UnregisterThenNotFound ==
    lastOp.op = "unregister_command" =>
        /\ ~lastOp.raised
        /\ lookup(commands, lastOp.name) = NotFound
\* the name unregistered was not registered at all
C2_Witness ==
    /\ lastOp.op = "unregister_command"
    /\ ~lastOp.existed
    /\ lastOp.name \notin DOMAIN commands

(***************************************************************************)
(* SpecPM: the PluginManager singleton of plugins/plugin_manager.py        *)
(* (plugins/plugin_manager_core.py resolves a command the same way).       *)
(* command_handlers and plugins are dicts, kept as the sequences of their  *)
(* items in insertion order.                                               *)
(***************************************************************************)
CoreHandler(fn) == [owner |-> "PluginManager", ver |-> "core", fn |-> fn]
PackageHandler(package, fn) == [owner |-> package, ver |-> "setup", fn |-> fn]

\* the plugin packages with a setup() whose instance carries `commands`
PluginPackages == {"system_log", "alternative_plugin"}
\* instance.commands.items(), in order
PackageCommands(package) ==
    CASE package = "system_log" ->
            << <<Name_logs, "cmd_show_logs">>, <<Name_history, "cmd_show_history">>,
               <<Name_system_info, "cmd_system_info">> >>
      [] package = "alternative_plugin" ->
            << <<Name_alternatives, "cmd_list_alternatives">>,
               <<Name_use, "cmd_use_alternative">> >>
      [] package = "notifier" -> << <<Name_time, "cmd_time">> >>
      [] OTHER -> << >>
\* a package whose setup() returns an instance that carries `commands` and
\* `event_handlers`; instance.event_handlers.items(), in order
EventPackages == {"system_log", "notifier"}
SetupPackages == PluginPackages \cup EventPackages
PackageEventHandlers(package) ==
    CASE package = "notifier" -> << <<"command.executed", "on_command">> >>
      [] OTHER -> << >>

KeySeq(items) == [i \in 1..Len(items) |-> items[i].name]
HandlerOf(items, key) == items[CHOOSE i \in 1..Len(items) : items[i].name = key].handler
HandlersSet(items, key, handler) ==
    IF key \in Keys(items)
    THEN [i \in 1..Len(items) |-> IF items[i].name = key
                                  THEN [name |-> key, handler |-> handler] ELSE items[i]]
    ELSE Append(items, [name |-> key, handler |-> handler])

pm_register_command_case_kept(items, name, handler) == HandlersSet(items, name, handler)
\* PluginManager.register_command
pm_register_command(items, name, handler) == HandlersSet(items, lower(name), handler)

\* PluginManager._register_core_commands
_register_core_commands(items) ==
    pm_register_command(
        pm_register_command(
            pm_register_command(items, Name_help, CoreHandler("show_help")),
            Name_plugins, CoreHandler("list_plugins")),
        Name_reload, CoreHandler("reload_plugins"))

execute_command_first_match(items, command) ==
    LET cmd == lower(command)
        matches == SelectSeq(KeySeq(items), LAMBDA c : startswith(c, cmd))
    IN IF Len(matches) >= 1 THEN Found(matches[1], HandlerOf(items, matches[1]))
       ELSE NotFound
execute_command_ambiguous_runs_first(items, command) ==
    LET cmd == lower(command)
        matches == SelectSeq(KeySeq(items), LAMBDA c : startswith(c, cmd))
    IN IF cmd \in Keys(items) THEN Found(cmd, HandlerOf(items, cmd))
       ELSE IF Len(matches) >= 1 THEN Found(matches[1], HandlerOf(items, matches[1]))
       ELSE NotFound
execute_command_prefix_only(items, command) ==
    LET cmd == lower(command)
        matches == SelectSeq(KeySeq(items), LAMBDA c : startswith(c, cmd))
    IN IF Len(matches) = 1 THEN Found(matches[1], HandlerOf(items, matches[1]))
       ELSE IF Len(matches) > 1 THEN AmbiguousMatch(matches)
       ELSE NotFound
\* PluginManager.execute_command, the resolution: the exact name, else the
\* registered names the typed one is a prefix of
execute_command(items, command) ==
    LET cmd == lower(command)
        matches == SelectSeq(KeySeq(items), LAMBDA c : startswith(c, cmd))
    IN IF cmd \in Keys(items) THEN Found(cmd, HandlerOf(items, cmd))
       ELSE IF Len(matches) = 1 THEN Found(matches[1], HandlerOf(items, matches[1]))
       ELSE IF Len(matches) > 1 THEN AmbiguousMatch(matches)
       ELSE NotFound

\* the register_command calls of _load_plugin for plugin.commands, from the i-th on
RECURSIVE register_plugin_commands(_, _, _)
register_plugin_commands(items, package, i) ==
    IF i > Len(PackageCommands(package)) THEN items
    ELSE register_plugin_commands(
            pm_register_command(items, PackageCommands(package)[i][1],
                                PackageHandler(package, PackageCommands(package)[i][2])),
            package, i + 1)

\* PluginManager.register_event_handler
register_event_handler(handlers, event, handler) ==
    [t \in DOMAIN handlers \cup {event} |->
        IF t = event
        THEN Append(IF t \in DOMAIN handlers THEN handlers[t] ELSE << >>, handler)
        ELSE handlers[t]]

\* the register_event_handler calls of _load_plugin for plugin.event_handlers,
\* from the i-th on
RECURSIVE register_plugin_event_handlers(_, _, _)
register_plugin_event_handlers(handlers, package, i) ==
    IF i > Len(PackageEventHandlers(package)) THEN handlers
    ELSE register_plugin_event_handlers(
            register_event_handler(handlers, PackageEventHandlers(package)[i][1],
                                   PackageHandler(package, PackageEventHandlers(package)[i][2])),
            package, i + 1)

\* PluginManager._load_plugin; the core services have no setup() and leave no trace
_load_plugin(m, package) ==
    IF package \in Keys(m.plugins) THEN m
    ELSE IF package \in SetupPackages
    THEN [m EXCEPT !.plugins = ItemsSet(@, package, "instance"),
                   !.command_handlers = register_plugin_commands(@, package, 1),
                   !.event_handlers = register_plugin_event_handlers(@, package, 1)]
    ELSE m

\* PluginManager.load_plugins: entries is plugins_dir.iterdir(), in its order,
\* after the three core services
RECURSIVE load_each(_, _, _)
load_each(m, entries, i) ==
    IF i > Len(entries) THEN m ELSE load_each(_load_plugin(m, entries[i]), entries, i + 1)
load_plugins(m, entries) ==
    load_each(load_each(m, <<"error_handler", "hardware_analyzer", "docker_manager">>, 1),
              entries, 1)

reload_plugins_keeps_event_handlers(m, entries) ==
    load_plugins([plugins |-> << >>, command_handlers |-> _register_core_commands(<< >>),
                  event_handlers |-> m.event_handlers],
                 entries)
\* PluginManager.reload_plugins
reload_plugins(m, entries) ==
    load_plugins([plugins |-> << >>, command_handlers |-> _register_core_commands(<< >>),
                  event_handlers |-> [t \in {} |-> << >>]],
                 entries)

\* PluginManager._call_handler: the state the handler leaves
_call_handler(m, handler, entries) ==
    IF handler.fn = "reload_plugins" THEN reload_plugins(m, entries) ELSE m

PM == [plugins |-> pm_plugins, command_handlers |-> command_handlers,
       event_handlers |-> event_handlers]
PMBecomes(m) ==
    /\ pm_plugins' = m.plugins
    /\ command_handlers' = m.command_handlers
    /\ event_handlers' = m.event_handlers

\* the names the operations of the plugin manager are called with
PMRegisterNames == { Name_hello, <<"H","e","l","l","o">>, <<"h","e">> }
PMTypedNames == { << >>, <<"h">>, <<"h","e">>, Name_hel, <<"H","E","L">>, Name_help,
                  <<"H","e","l","p">>, <<"h","i">>, <<"p">>, <<"r","e">>, <<"x">>,
                  Name_hello }
PMEntryLists ==
    { entries \in UNION { [1..n -> PluginPackages] : n \in 0..Cardinality(PluginPackages) } :
        /\ { entries[i] : i \in 1..Len(entries) } = pm_packages
        /\ Len(entries) = Cardinality(pm_packages) }
PMOp(op) == [op |-> op, typed |-> << >>, handler |-> NoHandler, result |-> NotFound]

PMInit ==
    /\ command_handlers = _register_core_commands(<< >>)
    /\ event_handlers = [t \in {} |-> << >>]
    /\ pm_plugins = << >>
    /\ pm_packages = {}
    /\ pm_last = PMOp("init")
    /\ sys_modules = {}
    /\ objects = << >>
    /\ imp_last = << >>
    /\ monitor = << >>
    /\ error_handler = << >>

\* a plugin package is added to, or removed from, the plugins directory
PMAddPackage(package) ==
    /\ package \notin pm_packages
    /\ pm_packages' = pm_packages \cup {package}
    /\ pm_last' = PMOp("add_package")
    /\ UNCHANGED <<command_handlers, event_handlers, pm_plugins>>
    /\ UNCHANGED <<shellVars, busVars, loopVars, importVars, monitor, error_handler>>
PMRemovePackage(package) ==
    /\ package \in pm_packages
    /\ pm_packages' = pm_packages \ {package}
    /\ pm_last' = PMOp("remove_package")
    /\ UNCHANGED <<command_handlers, event_handlers, pm_plugins>>
    /\ UNCHANGED <<shellVars, busVars, loopVars, importVars, monitor, error_handler>>

PMRegisterCommand(name, handler) ==
    /\ command_handlers' = pm_register_command(command_handlers, name, handler)
    /\ pm_last' = [PMOp("register_command") EXCEPT !.typed = name, !.handler = handler]
    /\ UNCHANGED <<event_handlers, pm_plugins, pm_packages>>
    /\ UNCHANGED <<shellVars, busVars, loopVars, importVars, monitor, error_handler>>

PMLoadPlugins(entries) ==
    /\ PMBecomes(load_plugins(PM, entries))
    /\ pm_last' = PMOp("load_plugins")
    /\ UNCHANGED pm_packages
    /\ UNCHANGED <<shellVars, busVars, loopVars, importVars, monitor, error_handler>>

PMExecuteCommand(command, entries) ==
    LET found == execute_command(command_handlers, command)
    IN /\ PMBecomes(IF found.kind = "Found" THEN _call_handler(PM, found.handler, entries)
                    ELSE PM)
       /\ pm_last' = [PMOp("execute_command") EXCEPT !.typed = command, !.result = found,
                         !.handler = found.handler]
       /\ UNCHANGED pm_packages
       /\ UNCHANGED <<shellVars, busVars, loopVars, importVars, monitor, error_handler>>

PMNext ==
    \/ \E package \in PluginPackages : PMAddPackage(package)
    \/ \E package \in PluginPackages : PMRemovePackage(package)
    \/ \E name \in PMRegisterNames, handler \in ApiHandlers : PMRegisterCommand(name, handler)
    \/ \E entries \in PMEntryLists : PMLoadPlugins(entries)
    \/ \E command \in PMTypedNames, entries \in PMEntryLists : PMExecuteCommand(command, entries)

ShellIdle ==
    /\ commands = _register_builtin_commands
    /\ plugins = << >>
    /\ plugin_files = [p \in PluginNames |-> NoFile]
    /\ subscribers = [t \in {} |-> << >>]
    /\ event_history = << >>
    /\ clock = 0
    /\ command_count = << >>
    /\ suggestions = << >>
    /\ running = TRUE
    /\ lastOp = Op("init")
    /\ observed = << >>

InitPM == ShellIdle /\ PMInit /\ BusIdle /\ LoopIdle
NextPM == PMNext
SpecPM == InitPM /\ [][NextPM]_vars

(***************************************************************************)
(* SpecReload: the plugin manager with plugins that carry event handlers:  *)
(* packages come and go, commands and event handlers are registered from   *)
(* outside, plugins are loaded, and the reload command is executed.        *)
(***************************************************************************)
ReloadEntryLists ==
    { entries \in UNION { [1..n -> EventPackages] : n \in 0..Cardinality(EventPackages) } :
        /\ { entries[i] : i \in 1..Len(entries) } = pm_packages
        /\ Len(entries) = Cardinality(pm_packages) }
ReloadTypedNames == { Name_reload, <<"r","e">>, Name_help }
ApiEventHandler == [owner |-> "api", ver |-> "", fn |-> "on_event"]
\* the handlers registered for any event, one after the other
RegisteredEventHandlers ==
    LET RECURSIVE total(_)
        total(ts) == IF ts = {} THEN 0
                     ELSE LET t == CHOOSE x \in ts : TRUE
                          IN Len(event_handlers[t]) + total(ts \ {t})
    IN total(DOMAIN event_handlers)

PMRegisterEventHandler(event, handler) ==
    /\ RegisteredEventHandlers < MaxEventRegistrations + Cardinality(EventPackages)
    /\ Len(SelectSeq(IF event \in DOMAIN event_handlers THEN event_handlers[event] ELSE << >>,
                     LAMBDA h : h = handler)) < MaxEventRegistrations
    /\ event_handlers' = register_event_handler(event_handlers, event, handler)
    /\ pm_last' = [PMOp("register_event_handler") EXCEPT !.handler = handler]
    /\ UNCHANGED <<command_handlers, pm_plugins, pm_packages>>
    /\ UNCHANGED <<shellVars, busVars, loopVars, importVars, monitor, error_handler>>

\* PluginManager.execute_command in a directory of EventPackages; pm_last
\* keeps what the manager held when the command was typed
ReloadExecuteCommand(command, entries) ==
    LET found == execute_command(command_handlers, command)
    IN /\ PMBecomes(IF found.kind = "Found" THEN _call_handler(PM, found.handler, entries)
                    ELSE PM)
       /\ pm_last' = [op |-> "execute_command", typed |-> command, result |-> found,
                      handler |-> found.handler, entries |-> entries, before |-> PM]
       /\ UNCHANGED pm_packages
       /\ UNCHANGED <<shellVars, busVars, loopVars, importVars, monitor, error_handler>>

ReloadNext ==
    \/ \E package \in EventPackages : PMAddPackage(package)
    \/ \E package \in EventPackages : PMRemovePackage(package)
    \/ \E handler \in ApiHandlers : PMRegisterCommand(Name_hello, handler)
    \/ PMRegisterEventHandler("command.executed", ApiEventHandler)
    \/ \E entries \in ReloadEntryLists : PMLoadPlugins(entries)
    \/ \E command \in ReloadTypedNames, entries \in ReloadEntryLists :
          ReloadExecuteCommand(command, entries)

InitReload == ShellIdle /\ PMInit /\ BusIdle /\ LoopIdle
NextReload == ReloadNext
SpecReload == InitReload /\ [][NextReload]_vars

(***************************************************************************)
(* SpecBus, SpecHistory: EventBus.emit one step at a time. delivery is the *)
(* `for handler in ...` loop of an emit in progress: the index the         *)
(* iterator will give next and the handler calls that have not returned.   *)
(***************************************************************************)
EventTypes == {"command.executed", "plugin.loaded"}
\* asyncio.iscoroutinefunction(handler) is true of the second
BusHandlers == {"on_event", "on_event_async"}
iscoroutinefunction(handler) == handler = "on_event_async"
BusData == [name |-> "", command |-> << >>]
Idle == << >>
\* self.subscribers.get(event_type, [])
SubscribersOf(event_type) ==
    IF event_type \in DOMAIN subscribers THEN subscribers[event_type] ELSE << >>
RECURSIVE SumLen(_, _)
SumLen(f, keys) ==
    IF keys = {} THEN 0
    ELSE LET k == CHOOSE x \in keys : TRUE IN Len(f[k]) + SumLen(f, keys \ {k})
TotalSubscribers == SumLen(subscribers, DOMAIN subscribers)
LogEntry(what, event_type, i, handler) ==
    [what |-> what, type |-> event_type, i |-> i, handler |-> handler]

BusInit ==
    /\ subscribers = [t \in {} |-> << >>]
    /\ event_history = << >>
    /\ clock = 0
    /\ delivery = Idle
    /\ emit_log = << >>

\* EventBus.subscribe (subscribers is a defaultdict(list))
Subscribe(event_type, handler) ==
    /\ delivery = Idle
    /\ subscribers' = [t \in DOMAIN subscribers \cup {event_type} |->
                          IF t = event_type THEN Append(SubscribersOf(t), handler)
                          ELSE subscribers[t]]
    /\ UNCHANGED <<event_history, clock, delivery, emit_log, script>>
    /\ UNCHANGED <<commands, plugins, plugin_files, command_count, suggestions, running, lastOp, observed, pmVars, loopVars>>

\* EventBus.emit, up to the loop: the Event is created and appended to the history
EmitBegin(event_type) ==
    /\ delivery = Idle
    /\ event_history' = history_append(event_history, Event(event_type, BusData, clock + 1))
    /\ clock' = clock + 1
    /\ delivery' = [type |-> event_type, next |-> 1, running |-> {}]
    /\ emit_log' = << >>
    /\ UNCHANGED <<subscribers, script>>
    /\ UNCHANGED <<commands, plugins, plugin_files, command_count, suggestions, running, lastOp, observed, pmVars, loopVars>>

CallHandlerWithoutAwaiting ==
    /\ delivery # Idle
    /\ delivery.next <= Len(SubscribersOf(delivery.type))
    /\ delivery' = [delivery EXCEPT !.running = @ \cup {delivery.next}, !.next = @ + 1]
    /\ emit_log' = Append(emit_log, LogEntry("call", delivery.type, delivery.next,
                                             SubscribersOf(delivery.type)[delivery.next]))
    /\ UNCHANGED <<subscribers, event_history, clock, script>>
    /\ UNCHANGED <<commands, plugins, plugin_files, command_count, suggestions, running, lastOp, observed, pmVars, loopVars>>
\* the loop takes the next handler and calls it: `await handler(event)` for a
\* coroutine function, `handler(event)` otherwise; either way the loop goes on
\* only when the call has returned or raised
CallHandler ==
    /\ delivery # Idle
    /\ delivery.running = {}
    /\ delivery.next <= Len(SubscribersOf(delivery.type))
    /\ delivery' = [delivery EXCEPT !.running = {delivery.next}, !.next = @ + 1]
    /\ emit_log' = Append(emit_log, LogEntry("call", delivery.type, delivery.next,
                                             SubscribersOf(delivery.type)[delivery.next]))
    /\ UNCHANGED <<subscribers, event_history, clock, script>>
    /\ UNCHANGED <<commands, plugins, plugin_files, command_count, suggestions, running, lastOp, observed, pmVars, loopVars>>

\* a handler call returns
HandlerReturns ==
    /\ delivery # Idle
    /\ \E i \in delivery.running :
        /\ delivery' = [delivery EXCEPT !.running = @ \ {i}]
        /\ emit_log' = Append(emit_log, LogEntry("return", delivery.type, i,
                                                 SubscribersOf(delivery.type)[i]))
    /\ UNCHANGED <<subscribers, event_history, clock, script>>
    /\ UNCHANGED <<commands, plugins, plugin_files, command_count, suggestions, running, lastOp, observed, pmVars, loopVars>>

HandlerRaisesUncaught ==
    /\ delivery # Idle
    /\ \E i \in delivery.running :
        /\ delivery' = Idle
        /\ emit_log' = emit_log \o << LogEntry("raise", delivery.type, i,
                                               SubscribersOf(delivery.type)[i]),
                                      LogEntry("propagated", delivery.type, i, "") >>
    /\ UNCHANGED <<subscribers, event_history, clock, script>>
    /\ UNCHANGED <<commands, plugins, plugin_files, command_count, suggestions, running, lastOp, observed, pmVars, loopVars>>
\* a handler call raises an Exception: `except Exception` prints it, and the
\* loop goes on
HandlerRaises ==
    /\ delivery # Idle
    /\ \E i \in delivery.running :
        /\ delivery' = [delivery EXCEPT !.running = @ \ {i}]
        /\ emit_log' = Append(emit_log, LogEntry("raise", delivery.type, i,
                                                 SubscribersOf(delivery.type)[i]))
    /\ UNCHANGED <<subscribers, event_history, clock, script>>
    /\ UNCHANGED <<commands, plugins, plugin_files, command_count, suggestions, running, lastOp, observed, pmVars, loopVars>>

\* the loop is exhausted and emit returns; the entry keeps the number of
\* subscribers the event type has at that moment
EmitReturns ==
    /\ delivery # Idle
    /\ delivery.running = {}
    /\ delivery.next > Len(SubscribersOf(delivery.type))
    /\ delivery' = Idle
    /\ emit_log' = Append(emit_log, LogEntry("returned", delivery.type,
                                             Len(SubscribersOf(delivery.type)), ""))
    /\ UNCHANGED <<subscribers, event_history, clock, script>>
    /\ UNCHANGED <<commands, plugins, plugin_files, command_count, suggestions, running, lastOp, observed, pmVars, loopVars>>

BusSubscribe(event_type, handler) == TotalSubscribers < MaxSubs /\ Subscribe(event_type, handler)
BusEmit(event_type) == clock < MaxEmits /\ EmitBegin(event_type)

ShellRest ==
    /\ commands = _register_builtin_commands
    /\ plugins = << >>
    /\ plugin_files = [p \in PluginNames |-> NoFile]
    /\ command_count = << >>
    /\ suggestions = << >>
    /\ running = TRUE
    /\ lastOp = Op("init")
    /\ observed = << >>

InitBus == ShellRest /\ PMIdle /\ BusInit /\ script = << >> /\ LoopIdle
NextBus ==
    \/ \E event_type \in EventTypes, handler \in BusHandlers : BusSubscribe(event_type, handler)
    \/ \E event_type \in EventTypes : BusEmit(event_type)
    \/ CallHandler
    \/ HandlerReturns
    \/ HandlerRaises
    \/ EmitReturns
SpecBus == InitBus /\ [][NextBus]_vars

\* SpecHistory: the run emits the event types of `script` in turn, over and over
Scripts == [1..2 -> EventTypes]
ScriptType(k) == script[((k - 1) % Len(script)) + 1]
HistorySubscribe(event_type, handler) ==
    TotalSubscribers < MaxHistSubs /\ Subscribe(event_type, handler)
HistoryEmit == clock < MaxHistEmits /\ EmitBegin(ScriptType(clock + 1))

InitHistory == ShellRest /\ PMIdle /\ BusInit /\ script \in Scripts /\ LoopIdle
NextHistory ==
    \/ \E event_type \in EventTypes, handler \in BusHandlers : HistorySubscribe(event_type, handler)
    \/ HistoryEmit
    \/ CallHandler
    \/ HandlerReturns
    \/ HandlerRaises
    \/ EmitReturns
SpecHistory == InitHistory /\ [][NextHistory]_vars

(***************************************************************************)
(* ErrorHandler (plugins/error_handler): the spell checker of command      *)
(* names. difflib.get_close_matches is computed here as difflib computes   *)
(* it: the matching characters M of two strings are the longest common     *)
(* block plus, recursively, those to its left and to its right, and the    *)
(* ratio is 2*M / (len(a) + len(b)).                                       *)
(***************************************************************************)
\* difflib.get_close_matches(word, possibilities, n=1, cutoff=0.6): the list of
\* the best candidate x with SequenceMatcher(a=x, b=word).ratio() >= 0.6, or
\* the empty list
get_close_matches(word, possibilities) ==
    LET \* the characters of lower-case command names, in the order of their codes
        Alphabet == <<"-", "_", "a", "b", "c", "d", "e", "f", "g", "h", "i", "j", "k",
                      "l", "m", "n", "o", "p", "q", "r", "s", "t", "u", "v", "w", "x",
                      "y", "z">>
        Ord(c) == CHOOSE i \in 1..Len(Alphabet) : Alphabet[i] = c
        \* str.__gt__
        RECURSIVE StrGreater(_, _, _)
        StrGreater(x, y, i) ==
            IF i > Len(x) THEN FALSE
            ELSE IF i > Len(y) THEN TRUE
            ELSE IF x[i] # y[i] THEN Ord(x[i]) > Ord(y[i])
            ELSE StrGreater(x, y, i + 1)
        \* the length of the common block of a and b that starts at a[i], b[j]
        RECURSIVE BlockLen(_, _, _, _, _, _)
        BlockLen(a, b, i, j, ahi, bhi) ==
            IF i <= ahi /\ j <= bhi /\ a[i] = b[j]
            THEN 1 + BlockLen(a, b, i + 1, j + 1, ahi, bhi)
            ELSE 0
        \* SequenceMatcher.find_longest_match on a[alo..ahi], b[blo..bhi]: the
        \* longest block, of those the one that starts earliest in a, then in b
        find_longest_match(a, b, alo, ahi, blo, bhi) ==
            LET starts == (alo..ahi) \X (blo..bhi)
                size(q) == BlockLen(a, b, q[1], q[2], ahi, bhi)
                best == CHOOSE q \in starts :
                            \A r \in starts :
                                \/ size(q) > size(r)
                                \/ /\ size(q) = size(r)
                                   /\ \/ q[1] < r[1]
                                      \/ q[1] = r[1] /\ q[2] <= r[2]
            IN IF starts = {} THEN [i |-> alo, j |-> blo, size |-> 0]
               ELSE [i |-> best[1], j |-> best[2], size |-> size(best)]
        \* the sum of the sizes of SequenceMatcher.get_matching_blocks
        RECURSIVE matching_chars(_, _, _, _, _, _)
        matching_chars(a, b, alo, ahi, blo, bhi) ==
            LET m == find_longest_match(a, b, alo, ahi, blo, bhi)
            IN IF m.size = 0 THEN 0
               ELSE m.size + matching_chars(a, b, alo, m.i - 1, blo, m.j - 1)
                           + matching_chars(a, b, m.i + m.size, ahi, m.j + m.size, bhi)
        Matches(x) == matching_chars(x, word, 1, Len(x), 1, Len(word))
        \* ratio() >= cutoff: 2*M/T >= 6/10
        IsClose(x) ==
            IF Len(x) + Len(word) = 0 THEN TRUE
            ELSE 10 * Matches(x) >= 3 * (Len(x) + Len(word))
        \* (ratio, x) > (ratio, y), the order heapq.nlargest ranks the candidates by
        Better(x, y) ==
            LET mx == Matches(x) * (Len(y) + Len(word))
                my == Matches(y) * (Len(x) + Len(word))
            IN mx > my \/ (mx = my /\ StrGreater(x, y, 1))
        close == {x \in possibilities : IsClose(x)}
    IN IF close = {} THEN << >>
       ELSE << CHOOSE x \in close : \A y \in close \ {x} : Better(x, y) >>

\* ErrorHandler.register_commands
register_commands(known, cmds) == known \cup cmds

\* ErrorHandler.suggest_correction: Optional[str], as the list of zero (None)
\* or one string
suggest_correction(known, word) ==
    IF known = {} THEN << >>
    ELSE get_close_matches(lower(word), {lower(cmd) : cmd \in known})

(***************************************************************************)
(* SpecLoop: ContainerOSMVP.start and _main_loop, one step per statement   *)
(* that can block, call out or fail. pc is the position of the loop:       *)
(*   while     about to test self.running                                  *)
(*   input     inside input()                                              *)
(*   dispatch  a non-empty line in hand, about to enter _execute_command   *)
(*   handler   the handler on top of `stack` is in execution               *)
(*   done      _main_loop has returned                                     *)
(* _cmd_listen may call _execute_command itself, so handlers nest.         *)
(***************************************************************************)
Out(what, name) == [what |-> what, name |-> name]
Frame(handler) == [handler |-> handler, heard |-> FALSE]

\* the lines typed at the prompt, or heard after a wake word
LoopLines == { <<Name_exit>>, <<Name_hello>>, <<Name_time>>, <<Name_hel>>,
               <<Name_listen>>, <<Name_reload>> }

\* handler({'data': {'args': args}}): handle_hello_command reads event.data of
\* what is a dict, and raises AttributeError
AlwaysRaises(handler) == handler.fn = "handle_hello_command"
\* `if result:` for what the handler returns
ReturnsOutput(frame) ==
    IF frame.handler.fn = "_cmd_listen" THEN frame.heard
    ELSE frame.handler.fn # "_cmd_speak"

Dispatched == Len(SelectSeq(event_history, LAMBDA e : e.type = "command.executed"))
Top == stack[Len(stack)]
Pop == SubSeq(stack, 1, Len(stack) - 1)
ResumeAtLoop(stk) == "while"
\* where control goes when the innermost _execute_command returns
Resume(stk) == IF stk = << >> THEN "while" ELSE "handler"

\* ContainerOSMVP.__init__, then start(): create_sample_plugin and load_all_plugins
Constructed ==
    [commands |-> _register_builtin_commands, plugins |-> << >>,
     subscribers |-> [t \in {"command.executed"} |-> <<"_handle_command_executed">>],
     event_history |-> << >>, clock |-> 0, command_count |-> << >>, suggestions |-> << >>,
     running |-> TRUE, observed |-> << >>, raised |-> FALSE]
Started == load_all_plugins(Constructed, <<[name |-> "plugin_a", module |-> "sample"]>>, 1)

LoopInit ==
    /\ commands = Started.commands
    /\ plugins = Started.plugins
    /\ plugin_files = [p \in PluginNames |-> IF p = "plugin_a" THEN "sample" ELSE NoFile]
    /\ subscribers = Started.subscribers
    /\ event_history = Started.event_history
    /\ clock = Started.clock
    /\ command_count = Started.command_count
    /\ suggestions = Started.suggestions
    /\ running = Started.running
    /\ lastOp = Op("start")
    /\ observed = << >>
    /\ pc = "while"
    /\ line = << >>
    /\ stack = << >>
    /\ output = << >>
    /\ known_commands = {}

LoopTestIgnoresRunning ==
    /\ pc = "while"
    /\ pc' = "input"
    /\ lastOp' = Op("test")
    /\ UNCHANGED <<commands, plugins, plugin_files, subscribers, event_history, clock,
                   command_count, suggestions, running, observed>>
    /\ UNCHANGED <<line, stack, output, known_commands>>
    /\ UNCHANGED <<pmVars, busVars>>
\* `while self.running:`
LoopTest ==
    /\ pc = "while"
    /\ pc' = IF running THEN "input" ELSE "done"
    /\ lastOp' = Op("test")
    /\ UNCHANGED <<commands, plugins, plugin_files, subscribers, event_history, clock,
                   command_count, suggestions, running, observed>>
    /\ UNCHANGED <<line, stack, output, known_commands>>
    /\ UNCHANGED <<pmVars, busVars>>

\* input() returns a line with a command on it
ReadLine(command_line) ==
    /\ pc = "input"
    /\ Dispatched < MaxLines
    /\ pc' = "dispatch"
    /\ line' = command_line
    /\ output' = << >>
    /\ lastOp' = [Op("read") EXCEPT !.name = command_line[1]]
    /\ UNCHANGED <<commands, plugins, plugin_files, subscribers, event_history, clock,
                   command_count, suggestions, running, observed>>
    /\ UNCHANGED <<stack, known_commands>>
    /\ UNCHANGED <<pmVars, busVars>>

\* input() returns a blank line: `if command_line:` is false
ReadEmptyLine ==
    /\ pc = "input"
    /\ pc' = "while"
    /\ line' = << >>
    /\ output' = << >>
    /\ lastOp' = Op("read_empty")
    /\ UNCHANGED <<commands, plugins, plugin_files, subscribers, event_history, clock,
                   command_count, suggestions, running, observed>>
    /\ UNCHANGED <<stack, known_commands>>
    /\ UNCHANGED <<pmVars, busVars>>

\* input() raises EOFError: break
EndOfInput ==
    /\ pc = "input"
    /\ pc' = "done"
    /\ line' = << >>
    /\ output' = << >>
    /\ lastOp' = Op("eof")
    /\ UNCHANGED <<commands, plugins, plugin_files, subscribers, event_history, clock,
                   command_count, suggestions, running, observed>>
    /\ UNCHANGED <<stack, known_commands>>
    /\ UNCHANGED <<pmVars, busVars>>

\* input() raises another Exception: reported, and the loop goes on
InputError ==
    /\ pc = "input"
    /\ pc' = "while"
    /\ line' = << >>
    /\ output' = << Out("error", << >>) >>
    /\ lastOp' = Op("input_error")
    /\ UNCHANGED <<commands, plugins, plugin_files, subscribers, event_history, clock,
                   command_count, suggestions, running, observed>>
    /\ UNCHANGED <<stack, known_commands>>
    /\ UNCHANGED <<pmVars, busVars>>

\* KeyboardInterrupt inside the try of the loop, whatever is in execution: break
Interrupt ==
    /\ pc \in {"input", "dispatch", "handler"}
    /\ pc' = "done"
    /\ stack' = << >>
    /\ output' = Append(output, Out("goodbye", << >>))
    /\ lastOp' = Op("interrupt")
    /\ UNCHANGED <<commands, plugins, plugin_files, subscribers, event_history, clock,
                   command_count, suggestions, running, observed>>
    /\ UNCHANGED <<line, known_commands>>
    /\ UNCHANGED <<pmVars, busVars>>

\* _execute_command up to the call of the handler: the event, then the lookup
Dispatch ==
    /\ pc = "dispatch"
    /\ LET s1 == emit(St, "command.executed", CommandData(line))
           found == lookup(s1.commands, line[1])
       IN /\ Becomes(s1)
          /\ IF found.kind = "Found"
             THEN /\ stack' = Append(stack, Frame(found.handler))
                  /\ pc' = "handler"
                  /\ output' = output
             ELSE /\ stack' = stack
                  /\ pc' = Resume(stack)
                  /\ output' = Append(output, Out("unknown_command", line[1]))
          /\ lastOp' = [Op("dispatch") EXCEPT !.name = line[1], !.result = found,
                           !.handler = found.handler]
    /\ UNCHANGED <<plugin_files, line, known_commands>>
    /\ UNCHANGED <<pmVars, busVars>>

\* _cmd_listen recognizes a wake word followed by a command, and executes it
ListenHears(command_line) ==
    /\ pc = "handler"
    /\ Top.handler.fn = "_cmd_listen"
    /\ ~Top.heard
    /\ Dispatched < MaxLines
    /\ stack' = [stack EXCEPT ![Len(stack)].heard = TRUE]
    /\ line' = command_line
    /\ pc' = "dispatch"
    /\ output' = Append(output, Out("recognized", command_line[1]))
    /\ lastOp' = [Op("hear") EXCEPT !.name = command_line[1]]
    /\ UNCHANGED <<commands, plugins, plugin_files, subscribers, event_history, clock,
                   command_count, suggestions, running, observed>>
    /\ UNCHANGED known_commands
    /\ UNCHANGED <<pmVars, busVars>>

\* the handler runs to its return: `if result: print(result)`
CommandReturns(files) ==
    /\ pc = "handler"
    /\ ~AlwaysRaises(Top.handler)
    /\ Becomes(call_handler(St, Top.handler, WithContent(files)))
    /\ stack' = Pop
    /\ pc' = Resume(Pop)
    /\ output' = IF ReturnsOutput(Top) THEN Append(output, Out("result", << >>))
                 ELSE output
    /\ lastOp' = [Op("handler_returns") EXCEPT !.handler = Top.handler]
    /\ UNCHANGED <<plugin_files, line, known_commands>>
    /\ UNCHANGED <<pmVars, busVars>>

CommandRaisesEndsLoop ==
    /\ pc = "handler"
    /\ AlwaysRaises(Top.handler)
    /\ stack' = << >>
    /\ pc' = "done"
    /\ output' = Append(output, Out("command_error", << >>))
    /\ lastOp' = [Op("handler_raises") EXCEPT !.handler = Top.handler]
    /\ UNCHANGED <<commands, plugins, plugin_files, subscribers, event_history, clock,
                   command_count, suggestions, running, observed>>
    /\ UNCHANGED <<line, known_commands>>
    /\ UNCHANGED <<pmVars, busVars>>
\* the handler raises: `except Exception` of _execute_command reports it
CommandRaises ==
    /\ pc = "handler"
    /\ AlwaysRaises(Top.handler)
    /\ stack' = Pop
    /\ pc' = Resume(Pop)
    /\ output' = Append(output, Out("command_error", << >>))
    /\ lastOp' = [Op("handler_raises") EXCEPT !.handler = Top.handler]
    /\ UNCHANGED <<commands, plugins, plugin_files, subscribers, event_history, clock,
                   command_count, suggestions, running, observed>>
    /\ UNCHANGED <<line, known_commands>>
    /\ UNCHANGED <<pmVars, busVars>>

\* a client hands the shell's command names to the spell checker, between
\* two commands
RegisterKnownCommands ==
    /\ pc = "while"
    /\ known_commands # register_commands(known_commands, DOMAIN commands)
    /\ known_commands' = register_commands(known_commands, DOMAIN commands)
    /\ lastOp' = Op("register_commands")
    /\ UNCHANGED <<commands, plugins, plugin_files, subscribers, event_history, clock,
                   command_count, suggestions, running, observed>>
    /\ UNCHANGED <<pc, line, stack, output>>
    /\ UNCHANGED <<pmVars, busVars>>

LoopNext ==
    \/ LoopTest
    \/ \E command_line \in LoopLines : ReadLine(command_line)
    \/ ReadEmptyLine
    \/ EndOfInput
    \/ InputError
    \/ Interrupt
    \/ Dispatch
    \/ \E command_line \in LoopLines : ListenHears(command_line)
    \/ \E files \in FileLists : CommandReturns(files)
    \/ CommandRaises
    \/ RegisterKnownCommands

InitLoop == LoopInit /\ PMIdle /\ BusIdle
NextLoop == LoopNext
SpecLoop == InitLoop /\ [][NextLoop]_vars
\* the loop is never blocked for ever in a handler, in the dispatch or in the
\* test of `running`: only input() waits
FairLoop ==
    /\ WF_vars(LoopTest)
    /\ WF_vars(Dispatch)
    /\ WF_vars(CommandRaises)
    /\ WF_vars(\E files \in FileLists : CommandReturns(files))
SpecLoopFair == SpecLoop /\ FairLoop

(***************************************************************************)
(* SpecTracker: the shell after start(), one action per turn of the loop,  *)
(* run far enough for the usage tracker's threshold to be passed           *)
(***************************************************************************)
TrackerLines == { <<Name_ps>>, <<Name_ps, <<"-","a">> >>, <<Name_hel>>, <<Name_hello>>,
                  <<Name_reload>>, <<Name_time>>, <<Name_help>> }

\* one turn of _main_loop on a non-empty line: input() to the return of
\* _execute_command
TrackedCommand(command_line, files) ==
    /\ pc = "while"
    /\ running
    /\ Dispatched < MaxTracked
    /\ Becomes(_execute_command(St, command_line, WithContent(files)).state)
    /\ lastOp' = [Op("execute") EXCEPT !.name = command_line[1], !.at = clock,
                     !.result = _execute_command(St, command_line, WithContent(files)).result,
                     !.handler = _execute_command(St, command_line, WithContent(files)).result.handler]
    /\ UNCHANGED plugin_files
    /\ UNCHANGED <<pmVars, busVars, loopVars>>

TrackerNext ==
    \E command_line \in TrackerLines, files \in FileLists : TrackedCommand(command_line, files)
InitTracker == LoopInit /\ PMIdle /\ BusIdle
NextTracker == TrackerNext
SpecTracker == InitTracker /\ [][NextTracker]_vars

(***************************************************************************)
(* SpecFaults: the shell with plugin files whose register() or             *)
(* unregister() raises: plugin files, load, unload, load_all, the reload   *)
(* handler and the dispatch of plugin commands.                            *)
(***************************************************************************)
FaultFileModules(p) == IF p = "plugin_a" THEN {"partial", "sample"}
                       ELSE {"stuck", "status"}

\* PluginManager.unload_plugin called from outside load_plugin: an exception
\* of unregister() reaches the caller
FaultyUnloadPlugin(p) ==
    /\ clock < MaxEvents
    /\ Becomes(unload_plugin(St, p))
    /\ lastOp' = [Op("unload_plugin") EXCEPT !.plugin = p,
                     !.module = IF p \in Keys(plugins) THEN ModuleOf(plugins, p) ELSE "",
                     !.was_loaded = p \in Keys(plugins), !.at = clock,
                     !.raised = unload_plugin(St, p).raised,
                     !.before = commands]
    /\ UNCHANGED plugin_files
    /\ UNCHANGED <<pmVars, busVars, loopVars>>

\* the reload handler, as _execute_command calls it: `raised` tells that it
\* ended in `except Exception` of _execute_command
FaultyReloadPlugins(files) ==
    /\ clock < MaxEvents
    /\ Becomes(_cmd_reload_plugins(St, WithContent(files)))
    /\ lastOp' = [Op("reload") EXCEPT !.was_loaded = plugins # << >>,
                     !.files = WithContent(files), !.at = clock, !.before = commands,
                     !.raised = _cmd_reload_plugins(St, WithContent(files)).raised,
                     !.handler = Builtin("_cmd_reload_plugins")]
    /\ UNCHANGED plugin_files
    /\ UNCHANGED <<pmVars, busVars, loopVars>>

FaultsNext ==
    \/ \E p \in PluginNames : \E module \in FaultFileModules(p) : WriteFile(p, module)
    \/ \E p \in PluginNames : LoadPlugin(p)
    \/ \E p \in PluginNames : FaultyUnloadPlugin(p)
    \/ \E files \in FileLists : LoadAllPlugins(files)
    \/ \E files \in FileLists : FaultyReloadPlugins(files)
    \/ \E command_line \in LoaderLines, files \in FileLists : ExecuteCommand(command_line, files)

InitFaults == ShellInit /\ PMIdle /\ BusIdle /\ LoopIdle
NextFaults == FaultsNext
SpecFaults == InitFaults /\ [][NextFaults]_vars

(***************************************************************************)
(* SpecSubs: the shell with plugins whose register() subscribes handlers   *)
(* to the event bus: plugin files, load, unload, the dispatch of commands  *)
(* (reload among them) and a client of the bus that emits system.startup.  *)
(***************************************************************************)
SubsFileModules(p) == IF p = "plugin_a" THEN {"listener", "generated"}
                      ELSE {"listener", "sample"}
SubsLines == { <<Name_hello>>, <<Name_reload>> }

SubsLoadPlugin(p) ==
    /\ clock < MaxSubsEvents
    /\ Becomes(load_plugin(St, p, plugin_files[p]).state)
    /\ lastOp' = [Op("load_plugin") EXCEPT !.plugin = p, !.module = plugin_files[p],
                     !.ret = load_plugin(St, p, plugin_files[p]).ret,
                     !.was_loaded = p \in Keys(plugins), !.at = clock]
    /\ UNCHANGED plugin_files
    /\ UNCHANGED <<pmVars, busVars, loopVars>>

SubsUnloadPlugin(p) ==
    /\ clock < MaxSubsEvents
    /\ Becomes(unload_plugin(St, p))
    /\ lastOp' = [Op("unload_plugin") EXCEPT !.plugin = p,
                     !.module = IF p \in Keys(plugins) THEN ModuleOf(plugins, p) ELSE "",
                     !.was_loaded = p \in Keys(plugins), !.at = clock]
    /\ UNCHANGED plugin_files
    /\ UNCHANGED <<pmVars, busVars, loopVars>>

\* one turn of ContainerOSMVP._main_loop on a non-empty line
SubsExecuteCommand(command_line, files) ==
    /\ running
    /\ clock < MaxSubsEvents
    /\ Becomes(_execute_command(St, command_line, WithContent(files)).state)
    /\ lastOp' = [Op("execute") EXCEPT !.name = command_line[1], !.at = clock,
                     !.result = _execute_command(St, command_line, WithContent(files)).result,
                     !.handler = _execute_command(St, command_line, WithContent(files)).result.handler]
    /\ UNCHANGED plugin_files
    /\ UNCHANGED <<pmVars, busVars, loopVars>>

\* a client of the event bus emits an event of the type
ClientEmit(event_type) ==
    /\ clock < MaxSubsEvents
    /\ Becomes(emit(St, event_type, BusData))
    /\ lastOp' = [Op("emit") EXCEPT !.at = clock]
    /\ UNCHANGED plugin_files
    /\ UNCHANGED <<pmVars, busVars, loopVars>>

SubsNext ==
    \/ \E p \in PluginNames : \E module \in SubsFileModules(p) : WriteFile(p, module)
    \/ \E p \in PluginNames : SubsLoadPlugin(p)
    \/ \E p \in PluginNames : SubsUnloadPlugin(p)
    \/ \E command_line \in SubsLines, files \in FileLists : SubsExecuteCommand(command_line, files)
    \/ ClientEmit("system.startup")

InitSubs == ShellInit /\ PMIdle /\ BusIdle /\ LoopIdle
NextSubs == SubsNext
SpecSubs == InitSubs /\ [][NextSubs]_vars

(***************************************************************************)
(* SpecMonitor: the monitoring plugin (the system monitor template) loaded *)
(* by the shell.  The sampler is a thread of its own: time passes in       *)
(* seconds (Tick), a thread that sleeps or samples goes on when its wait   *)
(* is over, and Thread.join(timeout) returns when the thread has ended or  *)
(* the timeout is over, whichever comes first.                             *)
(*   monitor.main   idle, or join: unregister() or the monitor-stop        *)
(*                  handler is inside stop_monitoring, waiting in join     *)
(*   thread.state   test (`while self.monitoring`), sample                 *)
(*                  (collect_metrics), sleep, exited                       *)
(***************************************************************************)
MonitorPlugin == "plugin_a"
Thread(state, wait) == [state |-> state, wait |-> wait, old |-> FALSE]
NoCall == [op |-> "", alive |-> 0, timed_out |-> FALSE]
\* SystemMonitor.__init__; the threads of an earlier instance run on
SystemMonitor(threads) ==
    [monitoring |-> FALSE, monitor_thread |-> 0,
     threads |-> [i \in 1..Len(threads) |-> [threads[i] EXCEPT !.old = TRUE]],
     main |-> "idle", timer |-> 0, caller |-> "", last |-> NoCall]
Alive(m) == { i \in 1..Len(m.threads) : m.threads[i].state # "exited" }

\* SystemMonitor.start_monitoring
start_monitoring(m) ==
    IF m.monitoring THEN m
    ELSE [m EXCEPT !.monitoring = TRUE,
                   !.threads = Append(@, Thread("test", 0)),
                   !.monitor_thread = Len(m.threads) + 1]
\* SystemMonitor.stop_monitoring up to the join: `if self.monitor_thread:`
stop_monitoring(m, caller) ==
    [m EXCEPT !.monitoring = FALSE, !.main = "join", !.caller = caller,
              !.timer = IF m.monitor_thread = 0 THEN 0 ELSE JoinTimeout]
\* Thread.join(timeout) has something to return for
JoinOver(m) ==
    IF m.monitor_thread = 0 THEN TRUE
    ELSE m.threads[m.monitor_thread].state = "exited" \/ m.timer = 0

MonitorLoaded == MonitorPlugin \in Keys(plugins) /\ monitor # << >>
MonitorIdle == MonitorLoaded /\ monitor.main = "idle"
MonitorOp(op) == [Op(op) EXCEPT !.plugin = MonitorPlugin, !.at = clock]

\* load_plugin of the plugin while it is not loaded: register() creates the
\* SystemMonitor
MonitorLoad ==
    /\ clock < MaxMonitorEvents
    /\ MonitorPlugin \notin Keys(plugins)
    /\ Becomes(load_plugin(St, MonitorPlugin, plugin_files[MonitorPlugin]).state)
    /\ monitor' = SystemMonitor(IF monitor = << >> THEN << >> ELSE monitor.threads)
    /\ lastOp' = [MonitorOp("load_plugin") EXCEPT !.module = plugin_files[MonitorPlugin]]
    /\ UNCHANGED plugin_files
    /\ UNCHANGED <<command_handlers, event_handlers, pm_plugins, pm_packages, pm_last, importVars, error_handler>>
    /\ UNCHANGED <<busVars, loopVars>>

\* the line monitor-start is dispatched
MonitorStart(files) ==
    /\ clock < MaxMonitorEvents
    /\ running
    /\ MonitorIdle
    /\ ~monitor.monitoring => Len(monitor.threads) < MaxThreads
    /\ Becomes(_execute_command(St, <<Name_monitor_start>>, WithContent(files)).state)
    /\ monitor' = [start_monitoring(monitor) EXCEPT !.last = NoCall]
    /\ lastOp' = [MonitorOp("execute") EXCEPT !.name = Name_monitor_start]
    /\ UNCHANGED plugin_files
    /\ UNCHANGED <<command_handlers, event_handlers, pm_plugins, pm_packages, pm_last, importVars, error_handler>>
    /\ UNCHANGED <<busVars, loopVars>>

\* the line monitor-stop is dispatched: the handler enters stop_monitoring
MonitorStop(files) ==
    /\ clock < MaxMonitorEvents
    /\ running
    /\ MonitorIdle
    /\ Becomes(_execute_command(St, <<Name_monitor_stop>>, WithContent(files)).state)
    /\ monitor' = [stop_monitoring(monitor, "monitor-stop") EXCEPT !.last = NoCall]
    /\ lastOp' = [MonitorOp("execute") EXCEPT !.name = Name_monitor_stop]
    /\ UNCHANGED plugin_files
    /\ UNCHANGED <<command_handlers, event_handlers, pm_plugins, pm_packages, pm_last, importVars, error_handler>>
    /\ UNCHANGED <<busVars, loopVars>>

\* unload_plugin calls unregister(): `if system_monitor: system_monitor.stop_monitoring()`
UnloadBegins ==
    /\ clock < MaxMonitorEvents
    /\ MonitorIdle
    /\ monitor' = [stop_monitoring(monitor, "unregister") EXCEPT !.last = NoCall]
    /\ lastOp' = MonitorOp("unload_begins")
    /\ UNCHANGED <<commands, plugins, plugin_files, subscribers, event_history, clock,
                   command_count, suggestions, running, observed>>
    /\ UNCHANGED <<command_handlers, event_handlers, pm_plugins, pm_packages, pm_last, importVars, error_handler>>
    /\ UNCHANGED <<busVars, loopVars>>

JoinReturnsWaitsForThread(m) ==
    IF m.monitor_thread = 0 THEN TRUE
    ELSE m.threads[m.monitor_thread].state = "exited"
\* join returns and stop_monitoring with it; unregister() goes on to remove the
\* commands and unload_plugin to its end
JoinReturns ==
    /\ monitor # << >>
    /\ monitor.main = "join"
    /\ JoinOver(monitor)
    /\ monitor' = [monitor EXCEPT !.main = "idle", !.timer = 0, !.caller = "",
                      !.last = [op |-> monitor.caller,
                                alive |-> Cardinality(Alive(monitor)),
                                timed_out |-> ~JoinReturnsWaitsForThread(monitor)]]
    /\ IF monitor.caller = "unregister"
       THEN /\ Becomes(unload_plugin(St, MonitorPlugin))
            /\ lastOp' = [MonitorOp("unload_plugin") EXCEPT !.was_loaded = TRUE]
       ELSE /\ lastOp' = MonitorOp("handler_returns")
            /\ UNCHANGED <<commands, plugins, subscribers, event_history, clock,
                           command_count, suggestions, running, observed>>
    /\ UNCHANGED plugin_files
    /\ UNCHANGED <<command_handlers, event_handlers, pm_plugins, pm_packages, pm_last, importVars, error_handler>>
    /\ UNCHANGED <<busVars, loopVars>>

ThreadStep(i, thread) ==
    /\ monitor' = [monitor EXCEPT !.threads[i] = thread]
    /\ UNCHANGED shellVars
    /\ UNCHANGED <<command_handlers, event_handlers, pm_plugins, pm_packages, pm_last, importVars, error_handler>>
    /\ UNCHANGED <<busVars, loopVars>>

\* _monitor_loop: `while self.monitoring:`; with psutil the sample takes its
\* interval, without it collect_metrics returns at once
ThreadTest(i, psutil) ==
    /\ monitor # << >>
    /\ i \in 1..Len(monitor.threads)
    /\ monitor.threads[i].state = "test"
    /\ ThreadStep(i, IF monitor.monitoring /\ ~monitor.threads[i].old
                     THEN [monitor.threads[i] EXCEPT !.state = "sample",
                              !.wait = IF psutil THEN SampleSeconds ELSE 0]
                     ELSE [monitor.threads[i] EXCEPT !.state = "exited", !.wait = 0])

\* collect_metrics and check_alerts are done: time.sleep(5)
ThreadSampled(i) ==
    /\ monitor # << >>
    /\ i \in 1..Len(monitor.threads)
    /\ monitor.threads[i].state = "sample"
    /\ monitor.threads[i].wait = 0
    /\ ThreadStep(i, [monitor.threads[i] EXCEPT !.state = "sleep", !.wait = SleepSeconds])

\* time.sleep(5) returns
ThreadWakes(i) ==
    /\ monitor # << >>
    /\ i \in 1..Len(monitor.threads)
    /\ monitor.threads[i].state = "sleep"
    /\ monitor.threads[i].wait = 0
    /\ ThreadStep(i, [monitor.threads[i] EXCEPT !.state = "test"])

\* a second passes: nobody who can go on is held back
Tick ==
    /\ monitor # << >>
    /\ \A i \in 1..Len(monitor.threads) :
          monitor.threads[i].state # "exited"
            => monitor.threads[i].state \in {"sample", "sleep"} /\ monitor.threads[i].wait > 0
    /\ monitor.main = "join" => ~JoinOver(monitor)
    /\ Alive(monitor) # {}
    /\ monitor' = [monitor EXCEPT
                      !.threads = [i \in 1..Len(@) |->
                                      IF @[i].wait > 0 THEN [@[i] EXCEPT !.wait = @ - 1]
                                      ELSE @[i]],
                      !.timer = IF @ > 0 THEN @ - 1 ELSE 0]
    /\ UNCHANGED shellVars
    /\ UNCHANGED <<command_handlers, event_handlers, pm_plugins, pm_packages, pm_last, importVars, error_handler>>
    /\ UNCHANGED <<busVars, loopVars>>

MonitorNext ==
    \/ MonitorLoad
    \/ \E files \in FileLists : MonitorStart(files)
    \/ \E files \in FileLists : MonitorStop(files)
    \/ UnloadBegins
    \/ JoinReturns
    \/ \E i \in 1..MaxThreads, psutil \in BOOLEAN : ThreadTest(i, psutil)
    \/ \E i \in 1..MaxThreads : ThreadSampled(i)
    \/ \E i \in 1..MaxThreads : ThreadWakes(i)
    \/ Tick

MonitorShellInit ==
    /\ commands = _register_builtin_commands
    /\ plugins = << >>
    /\ plugin_files = [p \in PluginNames |-> IF p = MonitorPlugin THEN "monitor" ELSE NoFile]
    /\ subscribers = [t \in {"command.executed"} |-> <<"_handle_command_executed">>]
    /\ event_history = << >>
    /\ clock = 0
    /\ command_count = << >>
    /\ suggestions = << >>
    /\ running = TRUE
    /\ lastOp = Op("init")
    /\ observed = << >>
InitMonitor == MonitorShellInit /\ PMIdle /\ BusIdle /\ LoopIdle
NextMonitor == MonitorNext
SpecMonitor == InitMonitor /\ [][NextMonitor]_vars

(***************************************************************************)
(* SpecCollector: the ErrorHandler singleton of plugins/error_handler, its *)
(* handlers per event type and log_error, run to completion.  log is what  *)
(* the logger was given, calls the handler calls of the last log_error.    *)
(***************************************************************************)
ErrEventTypes == {"error_occurred", "hardware_error"}
ErrHandlers == {"on_error", "on_error_raises", "on_error_too"}
ErrorTypes == {"ValueError", "KeyError"}
\* the handler raises an Exception when it is called
ErrHandlerRaises(handler) == handler = "on_error_raises"

\* ErrorHandler.__init__: no plugins/**/*_handler.py exists, so
\* _load_plugin_handlers registers nothing
ErrorHandlerInit ==
    [plugin_handlers |-> [t \in {} |-> << >>], log |-> << >>, calls |-> << >>,
     last |-> "init", raised |-> FALSE]

\* ErrorHandler.register_handler
register_handler(eh, event_type, handler) ==
    [eh EXCEPT !.plugin_handlers =
                  [t \in DOMAIN @ \cup {event_type} |->
                      IF t = event_type
                      THEN Append(IF t \in DOMAIN @ THEN @[t] ELSE << >>, handler)
                      ELSE @[t]],
               !.last = "register_handler"]

\* the loop of _notify_handlers from the i-th handler on
RECURSIVE notify_from(_, _, _, _)
RECURSIVE notify_from_stops_at_raise(_, _, _, _)
notify_from_stops_at_raise(eh, handlers, i, data) ==
    IF i > Len(handlers) THEN eh
    ELSE LET called == [eh EXCEPT !.calls = Append(@, [handler |-> handlers[i], data |-> data])]
         IN IF ErrHandlerRaises(handlers[i])
            THEN [called EXCEPT !.raised = TRUE]
            ELSE notify_from_stops_at_raise(called, handlers, i + 1, data)
notify_from(eh, handlers, i, data) ==
    IF i > Len(handlers) THEN eh
    ELSE LET called == [eh EXCEPT !.calls = Append(@, [handler |-> handlers[i], data |-> data])]
         IN notify_from(
                IF ErrHandlerRaises(handlers[i])
                THEN [called EXCEPT !.log = Append(@, [what |-> "handler_error", data |-> data])]
                ELSE called,
                handlers, i + 1, data)

_notify_handlers_stops_at_raise(eh, event_type, data) ==
    notify_from_stops_at_raise(eh, IF event_type \in DOMAIN eh.plugin_handlers
                                   THEN eh.plugin_handlers[event_type] ELSE << >>, 1, data)
\* ErrorHandler._notify_handlers: self.plugin_handlers.get(event_type, [])
_notify_handlers(eh, event_type, data) ==
    notify_from(eh, IF event_type \in DOMAIN eh.plugin_handlers
                    THEN eh.plugin_handlers[event_type] ELSE << >>, 1, data)

\* ErrorHandler.log_error: error_info is the entry
log_error(eh, error) ==
    LET error_info == [type |-> error, n |-> Len(SelectSeq(eh.log, LAMBDA e : e.what = "error")) + 1]
        logged == [eh EXCEPT !.log = Append(@, [what |-> "error", data |-> error_info]),
                             !.calls = << >>, !.last = "log_error", !.raised = FALSE]
    IN _notify_handlers(logged, "error_occurred", error_info)

RegisteredErrHandlers ==
    SumLen(error_handler.plugin_handlers, DOMAIN error_handler.plugin_handlers)
Errors == Len(SelectSeq(error_handler.log, LAMBDA e : e.what = "error"))

RegisterHandler(event_type, handler) ==
    /\ RegisteredErrHandlers < MaxErrHandlers
    /\ error_handler' = register_handler(error_handler, event_type, handler)
    /\ UNCHANGED <<command_handlers, event_handlers, pm_plugins, pm_packages, pm_last, importVars, monitor>>
    /\ UNCHANGED <<shellVars, busVars, loopVars>>

LogError(error) ==
    /\ Errors < MaxErrors
    /\ error_handler' = log_error(error_handler, error)
    /\ UNCHANGED <<command_handlers, event_handlers, pm_plugins, pm_packages, pm_last, importVars, monitor>>
    /\ UNCHANGED <<shellVars, busVars, loopVars>>

CollectorNext ==
    \/ \E event_type \in ErrEventTypes, handler \in ErrHandlers : RegisterHandler(event_type, handler)
    \/ \E error \in ErrorTypes : LogError(error)

InitCollector ==
    /\ ShellIdle /\ BusIdle /\ LoopIdle
    /\ command_handlers = << >> /\ event_handlers = << >>
    /\ pm_plugins = << >> /\ pm_packages = {} /\ pm_last = << >>
    /\ sys_modules = {} /\ objects = << >> /\ imp_last = << >> /\ monitor = << >>
    /\ error_handler = ErrorHandlerInit
NextCollector == CollectorNext
SpecCollector == InitCollector /\ [][NextCollector]_vars

(***************************************************************************)
(* SpecImport: the modules of the package `plugins` as the interpreter     *)
(* imports them.  A module is imported once: its body runs statement by    *)
(* statement, an exception in the body leaves the import and takes the     *)
(* module out of sys.modules again, the modules it had imported stay.      *)
(***************************************************************************)
ImportableModules ==
    { "plugins", "plugins.error_handler", "plugins.hardware_analyzer",
      "plugins.docker_manager", "plugins.plugin_manager",
      "plugins.plugin_manager_core", "plugins.shell_assistant",
      "plugins.system_log", "plugins.alternative_plugin", "plugins.sample_plugin" }
\* plugins/plugin_manager/__init__.py runs the file plugins/plugin_manager.py under this name
CoreModule == "plugins._plugin_manager_core"
Accessors == { "plugin_manager", "error_handler", "hardware_analyzer", "docker_manager" }

ImportStmt(module) == [op |-> "import", module |-> module, cls |-> "", var |-> ""]
NewStmt(cls, var) == [op |-> "new", module |-> "", cls |-> cls, var |-> var]
Stmt(op) == [op |-> op, module |-> "", cls |-> "", var |-> ""]
\* the statements of a module body that import, construct or raise
ModuleBody(name) ==
    CASE name = "plugins" -> << >>
      [] name = "plugins.error_handler" ->
            << NewStmt("error_handler.ErrorHandler", "error_handler") >>
      [] name = "plugins.hardware_analyzer" ->
            << ImportStmt("plugins.error_handler"),
               NewStmt("hardware_analyzer.HardwareAnalyzer", "hardware_analyzer") >>
      [] name = "plugins.docker_manager" ->
            << Stmt("import_docker"),
               ImportStmt("plugins.error_handler"),
               NewStmt("docker_manager.DockerManager", "docker_manager") >>
      [] name = CoreModule ->
            << ImportStmt("plugins.error_handler"),
               ImportStmt("plugins.hardware_analyzer"),
               ImportStmt("plugins.docker_manager"),
               NewStmt("plugin_manager.PluginManager", "plugin_manager") >>
      [] name = "plugins.plugin_manager" ->
            << Stmt("exec_module"), Stmt("sys_modules_insert"), Stmt("globals_update") >>
      [] name = "plugins.plugin_manager_core" ->
            << ImportStmt("plugins.error_handler"),
               ImportStmt("plugins.hardware_analyzer"),
               ImportStmt("plugins.docker_manager"),
               NewStmt("plugin_manager_core.PluginManager", "plugin_manager") >>
      [] name = "plugins.shell_assistant" -> << Stmt("syntax_error") >>
      [] name = "plugins.system_log" -> << ImportStmt("plugins.error_handler") >>
      [] name = "plugins.alternative_plugin" -> << ImportStmt("plugins.error_handler") >>
      [] OTHER -> << >>

\* DockerManager.__init__: _register_commands reads self.list_images, which the
\* class does not define; the other constructors return
Construct(cls) == IF cls = "docker_manager.DockerManager" THEN "AttributeError" ELSE ""

\* the object bound to `var` in `module`: its index in `objs`, 0 if there is none
Attr(objs, module, var) ==
    IF \E i \in 1..Len(objs) : objs[i].var = var /\ module \in objs[i].modules
    THEN CHOOSE i \in 1..Len(objs) : objs[i].var = var /\ module \in objs[i].modules
    ELSE 0
\* the namespace of a module that failed to import is dropped
Unbind(objs, module) ==
    [i \in 1..Len(objs) |-> [objs[i] EXCEPT !.modules = @ \ {module}]]
Rebind(objs, from, to) ==
    [i \in 1..Len(objs) |->
        IF from \in objs[i].modules THEN [objs[i] EXCEPT !.modules = @ \cup {to}] ELSE objs[i]]

RECURSIVE import_module(_, _, _)
RECURSIVE exec_body(_, _, _, _, _)
\* runs the statements of `name` from the i-th on; `docker` tells whether the
\* package docker is installed
exec_body(st, name, stmts, i, docker) ==
    IF i > Len(stmts) THEN [st EXCEPT !.raised = ""]
    ELSE
    LET stmt == stmts[i]
        after ==
            CASE stmt.op = "import" -> import_module(st, stmt.module, docker)
              [] stmt.op = "import_docker" ->
                    [st EXCEPT !.raised = IF docker THEN "" ELSE "ModuleNotFoundError"]
              [] stmt.op = "new" ->
                    IF Construct(stmt.cls) /= ""
                    THEN [st EXCEPT !.raised = Construct(stmt.cls)]
                    ELSE [st EXCEPT !.objects = Append(@, [cls |-> stmt.cls, var |-> stmt.var,
                                                           modules |-> {name}]),
                                    !.raised = ""]
              [] stmt.op = "exec_module" ->
                    LET ran == exec_body(st, CoreModule, ModuleBody(CoreModule), 1, docker)
                    IN IF ran.raised = "" THEN ran
                       ELSE [ran EXCEPT !.objects = Unbind(@, CoreModule)]
              [] stmt.op = "sys_modules_insert" ->
                    [st EXCEPT !.modules = @ \cup {CoreModule}, !.raised = ""]
              [] stmt.op = "globals_update" ->
                    [st EXCEPT !.objects = Rebind(@, CoreModule, name), !.raised = ""]
              [] OTHER -> [st EXCEPT !.raised = "SyntaxError"]
    IN IF after.raised /= "" THEN after
       ELSE exec_body(after, name, stmts, i + 1, docker)

\* importlib.import_module(name) / `import name`
import_module(st, name, docker) ==
    IF name \in st.modules THEN [st EXCEPT !.raised = ""]
    ELSE
    LET parent == IF name = "plugins" THEN st ELSE import_module(st, "plugins", docker)
        ran == exec_body([parent EXCEPT !.modules = @ \cup {name}], name,
                         ModuleBody(name), 1, docker)
    IN IF ran.raised = "" THEN ran
       ELSE [ran EXCEPT !.modules = @ \ {name}, !.objects = Unbind(@, name)]

\* plugins.get_plugin_manager() and its siblings: `from .<var> import <var>`
get_accessor(st, var, docker) ==
    LET module == "plugins." \o var
        imported == import_module(st, module, docker)
    IN IF imported.raised /= "" THEN [state |-> imported, result |-> 0]
       ELSE IF Attr(imported.objects, module, var) = 0
            THEN [state |-> [imported EXCEPT !.raised = "ImportError"], result |-> 0]
            ELSE [state |-> imported, result |-> Attr(imported.objects, module, var)]

Interpreter == [modules |-> sys_modules, objects |-> objects, raised |-> ""]
\* the call before the last one is remembered without its own past
Earlier(last) == IF last = << >> THEN << >> ELSE [last EXCEPT !.before = << >>]

ImportModule(name, docker) ==
    LET after == import_module(Interpreter, name, docker)
    IN /\ sys_modules' = after.modules
       /\ objects' = after.objects
       /\ imp_last' = [op |-> "import", name |-> name, raised |-> after.raised,
                       result |-> 0, before |-> Earlier(imp_last)]
       /\ UNCHANGED <<command_handlers, event_handlers, pm_plugins, pm_packages, pm_last, monitor, error_handler>>
       /\ UNCHANGED <<shellVars, busVars, loopVars>>

GetAccessor(var, docker) ==
    LET got == get_accessor(Interpreter, var, docker)
    IN /\ "plugins" \in sys_modules
       /\ sys_modules' = got.state.modules
       /\ objects' = got.state.objects
       /\ imp_last' = [op |-> "get", name |-> var, raised |-> got.state.raised,
                       result |-> got.result, before |-> Earlier(imp_last)]
       /\ UNCHANGED <<command_handlers, event_handlers, pm_plugins, pm_packages, pm_last, monitor, error_handler>>
       /\ UNCHANGED <<shellVars, busVars, loopVars>>

ImportNext ==
    \/ \E name \in ImportableModules, docker \in BOOLEAN : ImportModule(name, docker)
    \/ \E var \in Accessors, docker \in BOOLEAN : GetAccessor(var, docker)

InitImport == ShellIdle /\ PMIdle /\ BusIdle /\ LoopIdle
NextImport == ImportNext
SpecImport == InitImport /\ [][NextImport]_vars

(***************************************************************************)
(* Claims about prefix resolution (SpecPM)                                 *)
(***************************************************************************)
PrefixMatches(items, typed) == {n \in Keys(items) : startswith(n, typed)}
PositionOf(items, n) == CHOOSE i \in 1..Len(items) : items[i].name = n

C13_AmbiguousInvokesNothing ==
    [][ \A typed \in PMTypedNames :
          ( /\ pm_last'.op = "execute_command"
            /\ pm_last'.typed = typed
            /\ lower(typed) \notin Keys(command_handlers)
            /\ Cardinality(PrefixMatches(command_handlers, lower(typed))) >= 2 )
          => /\ pm_last'.handler = NoHandler
             /\ pm_last'.result.kind = "AmbiguousMatch"
             /\ {pm_last'.result.candidates[i] : i \in 1..Len(pm_last'.result.candidates)}
                    = PrefixMatches(command_handlers, lower(typed))
             /\ command_handlers' = command_handlers
             /\ pm_plugins' = pm_plugins ]_vars
C13_Witness ==
    /\ pm_last.op = "execute_command"
    /\ pm_last.typed = <<"H","E","L">>
    /\ pm_last.result.kind = "AmbiguousMatch"
    /\ pm_last.result.candidates = <<Name_help, Name_hello>>
    /\ pm_last.handler = NoHandler
    /\ pm_plugins # << >>

\* C26: the exact key is tried first: when the typed name, lowered, is itself
\* a registered name, executing it selects that name's own handler, also when
\* other registered names have it as a proper prefix; the result is never an
\* ambiguous match then.
C26_ExactKeyFirst ==
    [][ \A typed \in PMTypedNames :
          ( /\ pm_last'.op = "execute_command"
            /\ pm_last'.typed = typed
            /\ lower(typed) \in Keys(command_handlers) )
          => /\ pm_last'.result.kind = "Found"
             /\ pm_last'.result.name = lower(typed)
             /\ pm_last'.result.handler = HandlerOf(command_handlers, lower(typed))
             /\ pm_last'.handler = HandlerOf(command_handlers, lower(typed)) ]_vars
C26_Witness ==
    /\ pm_last.op = "execute_command"
    /\ pm_last.typed = <<"h","e">>
    /\ pm_last.result.kind = "Found"
    /\ pm_last.result.name = <<"h","e">>
    /\ pm_last.result.handler \in ApiHandlers
    /\ {Name_help, Name_hello} \subseteq PrefixMatches(command_handlers, <<"h","e">>) \ {<<"h","e">>}

(***************************************************************************)
(* Claims about the event bus (SpecBus, SpecHistory)                       *)
(***************************************************************************)
Calls == SelectSeq(emit_log, LAMBDA e : e.what = "call")
Last(s) == s[Len(s)]

\* C5: an emit never lets a subscriber's exception out, and when it returns
\* every subscriber of the event type has been called, those after a
\* subscriber that raised included.
C5_EveryHandlerInvoked ==
    /\ \A k \in 1..Len(emit_log) : emit_log[k].what # "propagated"
    /\ (emit_log # << >> /\ Last(emit_log).what = "returned") =>
          /\ Len(Calls) = Last(emit_log).i
          /\ \A j \in 1..Len(Calls) : Calls[j].i = j
          /\ \A k \in 1..Len(emit_log) :
                (emit_log[k].what = "raise" /\ emit_log[k].i < Last(emit_log).i)
                => \E m \in (k+1)..Len(emit_log) :
                      emit_log[m].what = "call" /\ emit_log[m].i = emit_log[k].i + 1
C5_Witness ==
    /\ delivery = Idle
    /\ Len(emit_log) = 7
    /\ emit_log[2].what = "raise" /\ emit_log[2].i = 1
    /\ emit_log[3].what = "call" /\ emit_log[3].i = 2
    /\ emit_log[4].what = "raise"
    /\ emit_log[6].what = "return"
    /\ emit_log[7].what = "returned" /\ emit_log[7].i = 3

\* C6: within one emit the subscribers are called in the order they
\* subscribed, and a subscriber is called only once the one before it has
\* returned or raised.
C6_SubscriptionOrderSequential ==
    /\ delivery # Idle => Cardinality(delivery.running) <= 1
    /\ \A j \in 1..Len(Calls) :
          /\ Calls[j].i = j
          /\ delivery # Idle => Calls[j].handler = SubscribersOf(delivery.type)[j]
    /\ \A k \in 1..Len(emit_log) :
          emit_log[k].what = "call" =>
             /\ k = 1 \/ /\ emit_log[k-1].what \in {"return", "raise"}
                         /\ emit_log[k-1].i = emit_log[k].i - 1
             /\ k < Len(emit_log) => /\ emit_log[k+1].what \in {"return", "raise"}
                                     /\ emit_log[k+1].i = emit_log[k].i
C6_Witness ==
    /\ delivery # Idle
    /\ delivery.running = {3}
    /\ Len(Calls) = 3
    /\ Calls[1].handler = "on_event_async"
    /\ Calls[2].handler = "on_event"
    /\ Calls[3].handler = "on_event_async"
    /\ SubscribersOf(delivery.type) = <<"on_event_async", "on_event", "on_event_async">>

Min(a, b) == IF a < b THEN a ELSE b
\* C7: after n emits the history holds the min(n, 100) most recently emitted
\* events, oldest first.
C7_HistoryBounded ==
    /\ Len(event_history) = Min(clock, HistoryMaxLen)
    /\ \A i \in 1..Len(event_history) :
          /\ event_history[i].timestamp = clock - Len(event_history) + i
          /\ event_history[i].type = ScriptType(event_history[i].timestamp)
C7_Witness ==
    /\ clock = HistoryMaxLen + 50
    /\ Len(event_history) = HistoryMaxLen
    /\ event_history[1].timestamp = 51
    /\ event_history[1].type # event_history[2].type
    /\ event_history[HistoryMaxLen].timestamp = clock

(***************************************************************************)
(* Claims about the plugin loader (Spec)                                   *)
(***************************************************************************)
Loaded(module) == { p \in Keys(plugins) : ModuleOf(plugins, p) = module }
HistoryIs(types, names) ==
    /\ Len(event_history) = Len(types)
    /\ \A i \in 1..Len(types) : /\ event_history[i].type = types[i]
                                /\ event_history[i].data.name = names[i]

\* C4 (as the spec states it): once the sample plugin is loaded next to the
\* built-ins, "hel" resolves to the plugin's hello handler as a unique prefix,
\* and once it is unloaded "hello" is not found.
C4_HelResolvesToHello ==
    /\ (lastOp.op = "load_plugin" /\ lastOp.ret /\ lastOp.module = "sample") =>
          LET found == lookup(commands, Name_hel)
          IN /\ found.kind = "Found"
             /\ found.handler = PluginHandler(lastOp.plugin, "sample", "handle_hello_command")
    /\ (lastOp.op = "unload_plugin" /\ lastOp.was_loaded /\ lastOp.module = "sample") =>
          lookup(commands, Name_hello) = NotFound

\* C4 (amended): once the sample plugin is loaded next to the built-ins,
\* "hello" resolves to the plugin's hello handler while "hel", a prefix of the
\* built-in help as well, does not resolve to a handler; once the plugin is
\* unloaded "hello" is not found. The dispatch loop reports the same.
C4_HelloResolvesUntilUnload ==
    /\ (lastOp.op = "load_plugin" /\ lastOp.ret /\ lastOp.module = "sample") =>
          /\ lookup(commands, Name_hello) =
                Found(Name_hello, PluginHandler(lastOp.plugin, "sample", "handle_hello_command"))
          /\ lookup(commands, Name_hel).kind # "Found"
          /\ Cardinality({n \in DOMAIN commands : startswith(n, Name_hel)}) = 2
    /\ (lastOp.op = "unload_plugin" /\ lastOp.was_loaded /\ lastOp.module = "sample") =>
          lookup(commands, Name_hello) = NotFound
    /\ (lastOp.op = "execute" /\ lastOp.name = Name_hello /\ Loaded("sample") = {}) =>
          lastOp.result = NotFound
    /\ (lastOp.op = "execute" /\ lastOp.name = Name_hello /\ Loaded("sample") # {}) =>
          /\ lastOp.result.kind = "Found"
          /\ lastOp.result.handler.fn = "handle_hello_command"
    /\ (lastOp.op = "execute" /\ lastOp.name = Name_hel) => lastOp.result.kind # "Found"
C4_Witness ==
    /\ lastOp.op = "execute"
    /\ lastOp.name = Name_hello
    /\ lastOp.result = NotFound
    /\ HistoryIs(<<"plugin.loaded", "plugin.unloaded", "command.executed">>,
                 <<"plugin_a", "plugin_a", "">>)
    /\ plugin_files["plugin_a"] = "sample"

\* C8: when a plugin that is already loaded is loaded again and the load
\* succeeds, the commands the plugin has in the registry are exactly the ones
\* the second load registered, each with the second load's handler.
C8_SecondLoadExact ==
    (lastOp.op = "load_plugin" /\ lastOp.ret /\ lastOp.was_loaded) =>
        /\ {n \in DOMAIN commands : commands[n].owner = lastOp.plugin}
              = RegisteredNames(lastOp.module)
        /\ \A n \in DOMAIN commands :
              commands[n].owner = lastOp.plugin => commands[n].ver = lastOp.module

\* C9: a plugin that registers status takes the name over from whoever had
\* it, and unloading a plugin that registered status removes the name from
\* the registry, also while another loaded plugin registered it too.
C9_StatusLastWriterWins ==
    /\ (lastOp.op = "load_plugin" /\ lastOp.ret /\ lastOp.module = "status") =>
          lookup(commands, Name_status) =
             Found(Name_status, PluginHandler(lastOp.plugin, "status", "handle_status_command"))
    /\ (lastOp.op = "unload_plugin" /\ lastOp.was_loaded /\ lastOp.module = "status") =>
          /\ lookup(commands, Name_status) = NotFound
          /\ \A n \in DOMAIN commands : commands[n].fn # "handle_status_command"
C9_Witness ==
    /\ lastOp.op = "unload_plugin"
    /\ lastOp.plugin = "plugin_b"
    /\ lastOp.module = "status"
    /\ plugins = << [name |-> "plugin_a", module |-> "status"] >>
    /\ HistoryIs(<<"plugin.loaded", "plugin.loaded", "plugin.unloaded">>,
                 <<"plugin_a", "plugin_b", "plugin_b">>)
    /\ Name_status \notin DOMAIN commands

\* C10: a reload when there is no plugin file and no loaded plugin leaves the
\* registry and the loaded plugins as they were.
C10_ReloadNothingIsNoOp ==
    [][(lastOp'.op = "reload" /\ ExistingFiles = {} /\ plugins = << >>) =>
          /\ commands' = commands
          /\ plugins' = plugins]_vars
C10_Witness ==
    /\ lastOp.op = "reload"
    /\ ~lastOp.was_loaded
    /\ ExistingFiles = {}
    /\ plugins = << >>
    /\ clock > 0
    /\ DOMAIN commands = BuiltinNames \ {Name_status}

(***************************************************************************)
(* Claims about loading and unloading (Spec, SpecObserved)                 *)
(***************************************************************************)
\* a file load_plugin can load: it executes and its register() returns
Loadable(module) == ~ExecRaises(module) /\ HasRegister(module) /\ ~RegisterRaises(module)
\* the events emitted by the last operation
EmittedByLastOp == SelectSeq(event_history, LAMBDA e : e.timestamp > lastOp.at)

\* C15: a file that raises when executed or has no register() is not recorded
\* as loaded and makes its own load return False, and load_all_plugins loads
\* every other file of the directory all the same, before or after it.
C15_LoadFailureIsLocal ==
    /\ (lastOp.op = "load_plugin" /\ ~Loadable(lastOp.module)) =>
          /\ ~lastOp.ret
          /\ lastOp.plugin \notin Keys(plugins)
    /\ lastOp.op = "load_all_plugins" =>
          \A i \in 1..Len(lastOp.files) :
             LET f == lastOp.files[i]
             IN IF Loadable(f.module)
                THEN f.name \in Keys(plugins) /\ ModuleOf(plugins, f.name) = f.module
                ELSE f.name \notin Keys(plugins)
C15_Witness ==
    /\ lastOp.op = "load_all_plugins"
    /\ Len(lastOp.files) = 2
    /\ lastOp.files[1] = [name |-> "plugin_a", module |-> "broken"]
    /\ lastOp.files[2].module = "status"
    /\ plugins = << [name |-> "plugin_b", module |-> "status"] >>
    /\ lastOp.before = _register_builtin_commands
    /\ commands[Name_status].owner = "plugin_b"

\* C16: a load that succeeds emits one plugin.loaded, with the plugin's name,
\* as its last event, and a subscriber called with it finds the plugin's
\* commands registered and the plugin stored; a load that fails emits none.
C16_LoadedEventOnSuccess ==
    lastOp.op = "load_plugin" =>
       LET loaded == SelectSeq(EmittedByLastOp, LAMBDA e : e.type = "plugin.loaded")
           seen == SelectSeq(observed, LAMBDA o : o.type = "plugin.loaded")
       IN /\ lastOp.ret =>
               /\ Len(loaded) = 1
               /\ loaded[1] = Event("plugin.loaded", PluginData(lastOp.plugin), clock)
               /\ event_history[Len(event_history)] = loaded[1]
               /\ \A i \in 1..Len(seen) :
                     /\ seen[i].name = lastOp.plugin
                     /\ lastOp.plugin \in seen[i].plugins
                     /\ \A n \in RegisteredNames(lastOp.module) :
                           /\ n \in DOMAIN seen[i].commands
                           /\ seen[i].commands[n].owner = lastOp.plugin
                           /\ seen[i].commands[n].ver = lastOp.module
          /\ ~lastOp.ret => Len(loaded) = 0 /\ Len(seen) = 0
          /\ ("plugin.loaded" \in DOMAIN subscribers /\ lastOp.ret) => Len(seen) = 1
C16_Witness ==
    /\ lastOp.op = "load_plugin"
    /\ lastOp.ret
    /\ lastOp.was_loaded
    /\ lastOp.module = "sample"
    /\ Len(observed) = 2
    /\ observed[1].type = "plugin.unloaded"
    /\ observed[2].type = "plugin.loaded"
    /\ Name_hello \in DOMAIN observed[2].commands

\* C17: unloading a name that is not loaded changes neither the registry nor
\* the loaded plugins and emits no event.
C17_UnloadUnknownIsNoOp ==
    [][(lastOp'.op = "unload_plugin" /\ ~lastOp'.was_loaded) =>
          /\ commands' = commands
          /\ plugins' = plugins
          /\ event_history' = event_history
          /\ clock' = clock
          /\ observed' = << >>]_vars
C17_Witness ==
    /\ lastOp.op = "unload_plugin"
    /\ ~lastOp.was_loaded
    /\ lastOp.plugin = "plugin_b"
    /\ plugins = << [name |-> "plugin_a", module |-> "sample"] >>
    /\ plugin_files["plugin_b"] = "status"
    /\ clock = 1

\* C18: once a plugin is unloaded, no command it registered is left in the
\* registry, whether its file has an unregister() or not.
C18_UnloadRemovesAttributed ==
    (lastOp.op = "unload_plugin" /\ lastOp.was_loaded) =>
        \A n \in DOMAIN commands : commands[n].owner # lastOp.plugin

\* C19: the loader loads a unit of either protocol: one with register() has
\* its register called, one with setup() is stored and has the commands of
\* the instance registered.
C19_BothProtocols ==
    (lastOp.op = "load_plugin" /\ ~ExecRaises(lastOp.module)) =>
        /\ HasRegister(lastOp.module) =>
              /\ lastOp.ret
              /\ lastOp.plugin \in Keys(plugins)
              /\ RegisteredNames(lastOp.module) \subseteq DOMAIN commands
        /\ HasSetup(lastOp.module) =>
              /\ lastOp.ret
              /\ lastOp.plugin \in Keys(plugins)
              /\ \A i \in 1..Len(PackageCommands(lastOp.module)) :
                    PackageCommands(lastOp.module)[i][1] \in DOMAIN commands

\* C20: whatever a subscriber called during a reload finds in the registry is
\* either the registry as it was before the reload or as it is after it.
C20_ReloadAtomic ==
    lastOp.op = "reload" =>
        \A i \in 1..Len(observed) :
            observed[i].commands \in {lastOp.before, commands}

(***************************************************************************)
(* Claims about the dispatch loop (SpecLoopFair, SpecLoop)                 *)
(***************************************************************************)
\* the command lines dispatched so far, typed or heard
DispatchedLines ==
    LET evs == SelectSeq(event_history, LAMBDA e : e.type = "command.executed")
    IN [i \in 1..Len(evs) |-> evs[i].data.command]
Reported(what) == \E i \in 1..Len(output) : output[i].what = what
\* the step completes the command of a typed line
CompletesCommand ==
    \/ /\ lastOp'.op \in {"handler_returns", "handler_raises"}
       /\ Len(stack) = 1
    \/ /\ lastOp'.op = "dispatch"
       /\ lastOp'.result.kind # "Found"
       /\ stack = << >>

\* C11: every command that completes, whether its handler returned a result,
\* returned nothing or raised, or no handler was found, brings the loop back
\* to the test of `running` with no handler left in execution; a handler that
\* raises is reported and changes nothing, `running` included, so that the
\* loop goes on to input(); only the exit handler makes the test fail. No
\* command keeps the loop from coming back: a dispatch always leads to the
\* test of `running` again, unless an interrupt ends the loop.
C11_LoopReturnsToIdle ==
    /\ [][ /\ CompletesCommand => pc' = "while" /\ stack' = << >>
           /\ lastOp'.op = "handler_raises" =>
                 /\ pc' # "done"
                 /\ running' = running
                 /\ Len(output') = Len(output) + 1
                 /\ output'[Len(output')].what = "command_error"
           /\ (lastOp'.op \in {"handler_returns", "handler_raises", "dispatch"}
                 /\ lastOp'.handler.fn # "_cmd_exit") => running' = running
           /\ (pc = "while" /\ running /\ pc' # pc) => pc' = "input" ]_vars
    /\ (pc \in {"dispatch", "handler"}) ~> (pc \in {"while", "done"})
\* back at the prompt after a command that succeeded, one that returned no
\* output and one that raised
C11_Witness ==
    /\ pc = "input"
    /\ running
    /\ DispatchedLines = << <<Name_time>>, <<Name_listen>>, <<Name_hello>> >>
    /\ output = << Out("command_error", << >>) >>
    /\ lastOp.op = "test"

\* C12: the loop ends when the exit handler has run, on end of input and on
\* an interrupt, and on nothing else; once the exit handler has run the loop
\* is never in input() again and no line is dispatched, and the loop does
\* end; once ended, nothing more happens.
C12_LoopTerminates ==
    /\ [](~running => pc \notin {"input", "dispatch"})
    /\ [](pc = "done" => (~running \/ lastOp.op \in {"eof", "interrupt"}))
    /\ [][ /\ ~running => event_history' = event_history
           /\ lastOp'.op \in {"eof", "interrupt"} => pc' = "done"
           /\ (lastOp'.op = "handler_returns" /\ lastOp'.handler.fn = "_cmd_exit")
                 => ~running'
           /\ pc # "done" ]_vars
    /\ (~running) ~> (pc = "done")
\* exit, heard by listen, has ended the loop while more lines could be read
C12_Witness ==
    /\ pc = "done"
    /\ ~running
    /\ lastOp.op = "test"
    /\ DispatchedLines = << <<Name_listen>>, <<Name_exit>> >>
    /\ Dispatched < MaxLines

\* C14: when the typed name is not found, the loop reports an unknown
\* command and calls no handler, and when suggest_correction has a correction
\* for the typed name the report carries it.
C14_UnknownCommandSuggestion ==
    [][ (lastOp'.op = "dispatch" /\ lastOp'.result.kind = "NotFound") =>
          /\ stack' = stack
          /\ Out("unknown_command", line[1]) \in {output'[i] : i \in 1..Len(output')}
          /\ suggest_correction(known_commands, line[1]) # << >> =>
                Out("suggestion", suggest_correction(known_commands, line[1])[1])
                    \in {output'[i] : i \in 1..Len(output')} ]_vars

\* C21 as stated: at most one command handler is in execution at any time, and
\* no command is dispatched while a handler is in execution.
C21_AtMostOneHandler ==
    /\ Len(stack) <= 1
    /\ pc = "dispatch" => stack = << >>
\* C21: handlers never overlap, they nest. The loop is at its test, in
\* input() or ended only when no handler is in execution, so no line is read
\* before the handler of the last one has completed; when several handlers
\* are in execution, only the innermost runs, and each of the others is
\* _cmd_listen waiting for the command it heard to complete; a step changes
\* the handlers in execution by entering one, by leaving the innermost, or
\* (interrupt) by leaving all.
C21_HandlersNestNeverOverlap ==
    /\ [](pc \in {"while", "input", "done"} => stack = << >>)
    /\ [](pc = "handler" => stack # << >>)
    /\ [](\A i \in 1..(Len(stack) - 1) :
             stack[i].handler.fn = "_cmd_listen" /\ stack[i].heard)
    /\ [][ /\ lastOp'.op \in {"read", "read_empty", "eof", "input_error"} => stack = << >>
           /\ \/ Len(stack') = Len(stack)
              \/ /\ Len(stack') = Len(stack) + 1
                 /\ SubSeq(stack', 1, Len(stack)) = stack
                 /\ lastOp'.op = "dispatch"
              \/ /\ Len(stack') = Len(stack) - 1
                 /\ stack' = SubSeq(stack, 1, Len(stack) - 1)
                 /\ lastOp'.op \in {"handler_returns", "handler_raises"}
                 /\ lastOp'.handler = stack[Len(stack)].handler
              \/ stack' = << >> /\ lastOp'.op = "interrupt" ]_vars
\* time, heard by listen, is in execution while listen waits for it
C21_Witness ==
    /\ pc = "handler"
    /\ Len(stack) = 2
    /\ stack[1].handler.fn = "_cmd_listen"
    /\ stack[2].handler.fn = "handle_time_command"
    /\ DispatchedLines = << <<Name_listen>>, <<Name_time>> >>

\* C27: the handler of the sample plugin's hello, a plain function, is called
\* with an object its event.data lookup works on: when the dispatch of `hello`
\* is over the handler has returned and its text is displayed, and no command
\* error is reported.
C27_SyncHandlerGetsEvent ==
    (lastOp.op \in {"handler_returns", "handler_raises"}
        /\ lastOp.handler.fn = "handle_hello_command")
    => /\ lastOp.op = "handler_returns"
       /\ output # << >>
       /\ output[Len(output)] = Out("result", << >>)
       /\ \A i \in 1..Len(output) : output[i].what # "command_error"

(***************************************************************************)
(* Claims about the usage tracker (SpecTracker)                            *)
(***************************************************************************)
\* the first tokens of the lines typed
TrackedNames == { command_line[1] : command_line \in TrackerLines }
\* the number of lines dispatched so far whose first token is c
TimesDispatched(c) ==
    Len(SelectSeq(DispatchedLines, LAMBDA command_line : command_line[1] = c))
TimesSuggested(c) == Len(SelectSeq(suggestions, LAMBDA x : x = c))

\* C22: the alias suggestion for a command has been made once when the
\* command has been dispatched five times or more, and not at all before; it
\* is made by the dispatch that is the fifth of that command, and by no other.
C22_SuggestionOnceAtFive ==
    /\ [](\A c \in TrackedNames :
            TimesSuggested(c) = IF TimesDispatched(c) >= 5 THEN 1 ELSE 0)
    /\ [][ suggestions' # suggestions =>
             /\ suggestions' = Append(suggestions, lastOp'.name)
             /\ TimesDispatched(lastOp'.name) = 4 ]_vars
\* ps dispatched six times: one suggestion, made on the fifth
C22_Witness ==
    /\ TimesDispatched(Name_ps) = 6
    /\ suggestions = <<Name_ps>>

\* C23: every dispatch of a non-empty line adds one to the counter of the
\* line's first token and leaves the other counters as they are, whether the
\* command is found or not and whatever its handler does, reload included;
\* so each counter is the number of lines dispatched with that first token.
C23_CounterCountsEveryDispatch ==
    /\ [](\A c \in TrackedNames : CountOf(command_count, c) = TimesDispatched(c))
    /\ []({command_count[i].name : i \in 1..Len(command_count)} \subseteq TrackedNames)
    /\ [][ lastOp'.op = "execute" =>
             \A c \in TrackedNames :
                 CountOf(command_count', c)
                    = CountOf(command_count, c) + (IF c = lastOp'.name THEN 1 ELSE 0) ]_vars
\* an unknown command, a command whose handler raises and a command with
\* arguments are counted, and the counters outlive the reload that followed
C23_Witness ==
    /\ lastOp.op = "execute"
    /\ lastOp.name = Name_reload
    /\ lastOp.handler.fn = "_cmd_reload_plugins"
    /\ CountOf(command_count, Name_hel) = 1
    /\ CountOf(command_count, Name_hello) = 1
    /\ CountOf(command_count, Name_ps) = 2
    /\ CountOf(command_count, Name_reload) = 1
    /\ <<Name_ps, <<"-","a">> >> \in {DispatchedLines[i] : i \in 1..Len(DispatchedLines)}

\* C24: get_stats gives the number of commands used, the number of lines
\* dispatched, and as most_used the five commands (all of them when fewer)
\* that come first when the commands are ranked by count, highest first,
\* commands of equal count by which was used first.
C24_StatsTopFive ==
    LET stats == get_stats(command_count)
        top == stats.most_used
        pos(name) == CHOOSE i \in 1..Len(command_count) : command_count[i].name = name
        ranks_before(x, y) ==
            \/ x.count > y.count
            \/ x.count = y.count /\ pos(x.name) < pos(y.name)
    IN /\ stats.commands_used = Cardinality({c \in TrackedNames : TimesDispatched(c) > 0})
       /\ stats.total_commands = Dispatched
       /\ Len(top) = Min(MostUsedLen, stats.commands_used)
       /\ \A i \in 1..Len(top) :
             /\ top[i].count = TimesDispatched(top[i].name)
             /\ top[i].count > 0
       /\ \A i, j \in 1..Len(top) : i < j => ranks_before(top[i], top[j])
       /\ \A k \in 1..Len(command_count) :
             (\A i \in 1..Len(top) : top[i].name # command_count[k].name)
                => \A i \in 1..Len(top) : ranks_before(top[i], command_count[k])
\* six commands used once each: the five used first are reported, in the
\* order of their first use, and the sixth is left out
C24_Witness ==
    /\ Len(command_count) = 6
    /\ Dispatched = 6
    /\ Len(get_stats(command_count).most_used) = 5
    /\ get_stats(command_count).most_used = SubSeq(command_count, 1, 5)
    /\ command_count[6].name = Name_hel


(***************************************************************************)
(* Claims about the plugin manager singleton (SpecImport)                  *)
(***************************************************************************)
\* C25: importing plugins.plugin_manager succeeds and exposes the attribute
\* plugin_manager, and get_plugin_manager() returns that one instance on
\* every call
C25_PluginManagerSingleton ==
    /\ (imp_last /= << >> /\ imp_last.op = "import" /\ imp_last.name = "plugins.plugin_manager")
            => /\ imp_last.raised = ""
               /\ Attr(objects, "plugins.plugin_manager", "plugin_manager") /= 0
    /\ (imp_last /= << >> /\ imp_last.op = "get" /\ imp_last.name = "plugin_manager")
            => /\ imp_last.raised = ""
               /\ imp_last.result /= 0
               /\ imp_last.result = Attr(objects, "plugins.plugin_manager", "plugin_manager")


(***************************************************************************)
(* Claims about the subscriptions of plugins (SpecSubs)                    *)
(***************************************************************************)
\* the command.executed events emitted so far for the command
ExecutedEvents(c) ==
    { k \in 1..Len(event_history) :
        /\ event_history[k].type = "command.executed"
        /\ event_history[k].data.command[1] = c }

\* C28: the tracker's handler is the first subscriber of command.executed,
\* whatever plugins were loaded, unloaded and reloaded: when a handler a
\* plugin subscribed is called with the event of a dispatched command, the
\* tracker has already counted that very command.
C28_TrackerObservesFirst ==
    /\ "command.executed" \in DOMAIN subscribers
    /\ subscribers["command.executed"][1] = "_handle_command_executed"
    /\ \A i \in 1..Len(observed) :
          (observed[i].type = "command.executed" /\ observed[i].by \in PluginSubscribers)
          => CountOf(observed[i].counts, observed[i].command[1])
                = Cardinality(ExecutedEvents(observed[i].command[1]))
C28_Witness ==
    /\ lastOp.op = "execute"
    /\ lastOp.name = Name_hello
    /\ Len(subscribers["command.executed"]) >= 3
    /\ \E k \in 1..Len(event_history) : event_history[k].type = "plugin.unloaded"
    /\ Len(observed) >= 2
    /\ \A i \in 1..Len(observed) :
          /\ observed[i].by = PluginSubscriber("plugin_a", "on_command")
          /\ observed[i].type = "command.executed"
          /\ CountOf(observed[i].counts, Name_hello) = 1


\* the handlers of the plugins among the subscribers of the event type
PluginHandlersOf(subs, event_type) ==
    IF event_type \in DOMAIN subs
    THEN SelectSeq(subs[event_type], LAMBDA h : h \in PluginSubscribers)
    ELSE << >>

\* C29: unloading a plugin leaves the subscribers of the event bus as they are
\* (no operation of the shell ever takes a subscriber out), and an emit calls
\* every handler the plugins subscribed to the event type, in order, those of
\* plugins unloaded since included.
C29_UnloadKeepsSubscriptions ==
    [][ /\ lastOp'.op = "unload_plugin" => subscribers' = subscribers
        /\ \A t \in DOMAIN subscribers :
              /\ t \in DOMAIN subscribers'
              /\ Len(subscribers[t]) <= Len(subscribers'[t])
              /\ SubSeq(subscribers'[t], 1, Len(subscribers[t])) = subscribers[t]
        /\ lastOp'.op = "emit" =>
              [i \in 1..Len(observed') |-> observed'[i].by]
                  = PluginHandlersOf(subscribers, event_history'[Len(event_history')].type) ]_vars
C29_Witness ==
    /\ lastOp.op = "emit"
    /\ plugins = << >>
    /\ Name_g_example \notin DOMAIN commands
    /\ \E k \in 1..Len(event_history) :
          /\ event_history[k].type = "plugin.unloaded"
          /\ event_history[k].data.name = "plugin_a"
    /\ Len(observed) = 1
    /\ observed[1].by = PluginSubscriber("plugin_a", "lambda")
    /\ observed[1].type = "system.startup"
    /\ observed[1].plugins = {}


(***************************************************************************)
(* Claims about the monitoring plugin (SpecMonitor)                        *)
(***************************************************************************)
\* C30: when the unload of the monitoring plugin returns, after its
\* unregister() has, no sampler thread of the plugin is still running.
C30_SamplerStoppedAtUnload ==
    (monitor # << >> /\ monitor.last.op = "unregister") => monitor.last.alive = 0


(***************************************************************************)
(* Claims about the Error Collector (SpecCollector)                        *)
(***************************************************************************)
ErrHandlersOf(event_type) ==
    IF event_type \in DOMAIN error_handler.plugin_handlers
    THEN error_handler.plugin_handlers[event_type] ELSE << >>
LastError ==
    LET errors == SelectSeq(error_handler.log, LAMBDA e : e.what = "error")
    IN errors[Len(errors)].data

\* C31: log_error calls every handler registered for error_occurred, in the
\* order of registration, each with the entry just logged; a handler that
\* raises is caught and logged, the handlers after it are called all the
\* same, and log_error returns normally.
C31_EveryHandlerNotified ==
    error_handler.last = "log_error" =>
        /\ ~error_handler.raised
        /\ [i \in 1..Len(error_handler.calls) |-> error_handler.calls[i].handler]
              = ErrHandlersOf("error_occurred")
        /\ \A i \in 1..Len(error_handler.calls) : error_handler.calls[i].data = LastError
C31_Witness ==
    /\ error_handler.last = "log_error"
    /\ ErrHandlersOf("error_occurred") = <<"on_error", "on_error_raises", "on_error_too">>
    /\ Len(error_handler.calls) = 3
    /\ error_handler.calls[3].handler = "on_error_too"
    /\ error_handler.log[Len(error_handler.log)].what = "handler_error"
    /\ LastError.n = 2


\* C32: after a register_command(name, h) of the shell the name is in the
\* known-command list of the Error Collector, and suggest_correction offers
\* it for the name itself.
C32_RegistrationFeedsKnownCommands ==
    lastOp.op = "register_command" =>
        /\ lastOp.name \in known_commands
        /\ suggest_correction(known_commands, lastOp.name) = << lower(lastOp.name) >>


(***************************************************************************)
(* Claims about the case of command names (SpecPM)                         *)
(***************************************************************************)
\* C33: the plugin manager lowers a name when it registers it and when it
\* looks it up: every key of its table is lower case and occurs once, a
\* registration ends up under the lowered name with the handler just given,
\* and a typed name resolves exactly as its lowered form does, prefix
\* matches included.  The shell's own registry compares names as typed:
\* `Help` is not found there while `help` is.
C33_CaseInsensitiveResolution ==
    /\ \A i \in 1..Len(command_handlers) :
          /\ lower(command_handlers[i].name) = command_handlers[i].name
          /\ \A j \in 1..Len(command_handlers) :
                command_handlers[i].name = command_handlers[j].name => i = j
    /\ pm_last.op = "register_command" =>
          /\ lower(pm_last.typed) \in Keys(command_handlers)
          /\ HandlerOf(command_handlers, lower(pm_last.typed)) = pm_last.handler
    /\ \A typed \in PMTypedNames :
          execute_command(command_handlers, typed)
              = execute_command(command_handlers, lower(typed))
    /\ lookup(commands, Name_help).kind = "Found"
    /\ lookup(commands, <<"H","e","l","p">>) = NotFound
C33_Witness ==
    /\ pm_last.op = "execute_command"
    /\ pm_last.typed = <<"H","e","l","p">>
    /\ pm_last.result = Found(Name_help, CoreHandler("show_help"))
    /\ Name_hello \in Keys(command_handlers)
    /\ HandlerOf(command_handlers, Name_hello) \in ApiHandlers
    /\ execute_command(command_handlers, <<"H","E","L">>).kind = "AmbiguousMatch"
    /\ execute_command(command_handlers, <<"p">>) = Found(Name_plugins, CoreHandler("list_plugins"))


(***************************************************************************)
(* Claims about the plugin lifecycle and the registry (Spec)               *)
(***************************************************************************)
\* C34: whatever plugins are loaded, unloaded and reloaded, every name
\* _register_builtin_commands registered is still in the registry.
C34_BuiltinsStayRegistered == BuiltinNames \subseteq DOMAIN commands


(***************************************************************************)
(* Claims about plugins whose register() or unregister() raises            *)
(* (SpecFaults)                                                            *)
(***************************************************************************)
\* C35: a load that failed left nothing of the plugin in the registry, and
\* every command that is not a built-in one was registered by a plugin that
\* is recorded as loaded.
C35_FailedLoadLeavesNoTrace ==
    /\ (lastOp.op = "load_plugin" /\ ~lastOp.ret) =>
          \A n \in DOMAIN commands : commands[n].owner # lastOp.plugin
    /\ \A n \in DOMAIN commands :
          commands[n].owner # "ContainerOSMVP" => commands[n].owner \in Keys(plugins)

\* C36: once the reload handler is over, every plugin file that can be loaded
\* is loaded, with what the file holds now, also when the unregister() of a
\* plugin raised.
C36_ReloadLoadsEveryUnit ==
    lastOp.op = "reload" =>
        \A p \in PluginNames :
            Loadable(plugin_files[p]) =>
                /\ p \in Keys(plugins)
                /\ ModuleOf(plugins, p) = plugin_files[p]


(***************************************************************************)
(* Claims about events and reloads (SpecSubs, SpecFaults)                  *)
(***************************************************************************)
\* C37: an emit calls the handler a plugin's register() subscribed at most
\* once, and exactly once while the plugin is loaded, however often the
\* plugin was loaded and reloaded before.
C37_OneDeliveryPerEmit ==
    lastOp.op = "emit" =>
        \A p \in PluginNames :
            LET h == PluginSubscriber(p, "lambda")
                calls == Len(SelectSeq(observed, LAMBDA o : o.by = h))
            IN /\ calls <= 1
               /\ (p \in Keys(plugins) /\ ModuleOf(plugins, p) = "generated") => calls = 1


\* the plugin.loaded and plugin.unloaded events of a plugin, in emission order
LifecycleEvents(p) ==
    SelectSeq(event_history, LAMBDA e : /\ e.type \in {"plugin.loaded", "plugin.unloaded"}
                                        /\ e.data.name = p)

\* C38: between operations, the plugin.loaded and plugin.unloaded events of a
\* plugin alternate, the first being plugin.loaded, and the plugin is in the
\* loaded set exactly when the last of them is plugin.loaded.
C38_LoadedUnloadedAlternate ==
    \A p \in PluginNames :
        LET evs == LifecycleEvents(p)
        IN /\ \A i \in 1..Len(evs) :
                 evs[i].type = IF i % 2 = 1 THEN "plugin.loaded" ELSE "plugin.unloaded"
           /\ p \in Keys(plugins) <=>
                 (Len(evs) > 0 /\ evs[Len(evs)].type = "plugin.loaded")
C38_Witness ==
    /\ lastOp.op = "reload"
    /\ lastOp.raised
    /\ Len(LifecycleEvents("plugin_a")) = 2
    /\ Len(LifecycleEvents("plugin_b")) = 1
    /\ Keys(plugins) = {"plugin_b"}
    /\ ModuleOf(plugins, "plugin_b") = "stuck"


(***************************************************************************)
(* Claims about the reload of the plugin manager (SpecReload)              *)
(***************************************************************************)
\* the commands a loaded plugin registered, under the names the registry uses
CommandsOfLoaded(loaded) ==
    UNION { { lower(PackageCommands(p)[i][1]) : i \in 1..Len(PackageCommands(p)) } :
            p \in loaded }

\* C39: when the reload command is over, the registry holds the three core
\* commands and the commands of the plugins this reload loaded, nothing else;
\* the plugins loaded are the packages the directory holds now; and the
\* event handlers are those of these plugins, each once, in load order.
C39_ReloadRebuildsRegistry ==
    (pm_last.op = "execute_command" /\ pm_last.handler.fn = "reload_plugins") =>
        /\ KeySeq(pm_plugins) = pm_last.entries
        /\ Keys(command_handlers)
              = {Name_help, Name_plugins, Name_reload} \cup CommandsOfLoaded(Keys(pm_plugins))
        /\ \A t \in DOMAIN event_handlers :
              /\ \A i, j \in 1..Len(event_handlers[t]) :
                    event_handlers[t][i] = event_handlers[t][j] => i = j
              /\ \A i \in 1..Len(event_handlers[t]) :
                    /\ event_handlers[t][i].owner \in Keys(pm_plugins)
                    /\ \E k \in 1..Len(PackageEventHandlers(event_handlers[t][i].owner)) :
                          PackageEventHandlers(event_handlers[t][i].owner)[k]
                              = <<t, event_handlers[t][i].fn>>
        /\ \A p \in Keys(pm_plugins) : \A k \in 1..Len(PackageEventHandlers(p)) :
              /\ PackageEventHandlers(p)[k][1] \in DOMAIN event_handlers
              /\ \E i \in 1..Len(event_handlers[PackageEventHandlers(p)[k][1]]) :
                    event_handlers[PackageEventHandlers(p)[k][1]][i]
                        = PackageHandler(p, PackageEventHandlers(p)[k][2])
\* a reload after system_log left the directory, with a command and an event
\* handler registered from outside and notifier loaded before
C39_Witness ==
    /\ pm_last.op = "execute_command"
    /\ pm_last.handler.fn = "reload_plugins"
    /\ pm_last.typed = <<"r","e">>
    /\ Keys(pm_last.before.plugins) = {"system_log", "notifier"}
    /\ Name_hello \in Keys(pm_last.before.command_handlers)
    /\ Len(pm_last.before.event_handlers["command.executed"]) = 3
    /\ pm_packages = {"notifier"}
    /\ KeySeq(pm_plugins) = <<"notifier">>
    /\ Name_logs \notin Keys(command_handlers)
    /\ event_handlers = [t \in {"command.executed"} |->
                            << PackageHandler("notifier", "on_command") >>]


(***************************************************************************)
(* Claims about the sampler thread of the monitoring plugin (SpecMonitor)  *)
(***************************************************************************)
\* C40: however monitor-start, monitor-stop and the steps of the sampler
\* interleave, at most one sampler thread of the SystemMonitor is running.
C40_AtMostOneSampler ==
    monitor # << >> =>
        Cardinality({ i \in Alive(monitor) : ~monitor.threads[i].old }) <= 1

====
